---------------------------- MODULE Spec2Model ----------------------------
(***************************************************************************)
(* Little-Shader-Display: the directory change detector (FileWatcher),     *)
(* the RGBA8888 -> RGB565 pixel converter, the shader recompilation of the *)
(* Renderer, the status vector of the uniforms, and the main loop of       *)
(* little-shader-display/src/main.rs with the Bluetooth listener task.     *)
(***************************************************************************)
EXTENDS Integers, Sequences, FiniteSets, TLC

VARIABLES
    dir,                \* the watched directory: file name -> mtime, 0 = no such entry
    readable,           \* whether fs::read_dir on the watched directory succeeds
    previous_metadata,  \* FileWatcher.previous_metadata: HashMap<PathBuf, SystemTime>
    polled,             \* history: what the last get_changes call (of this loop iteration) returned
    since,              \* history: what was mutated in the directory since the last snapshot
    at_poll,            \* history: `since` and the previous operation, as the last poll found them
    op,                 \* history: the operation performed last (by the main thread)
    conv_input,         \* rgba8888_to_rgb565_u8: the input slice
    conv_flip,          \* rgba8888_to_rgb565_u8: flip_order
    conv_output,        \* rgba8888_to_rgb565_u8: the returned vector
    conv_pc,            \* "call" before the conversion, "done" after it, "idle" when unused
    pc,                 \* where the process is: a step of main's loop, "panicked", "exited"
    target_os,          \* cfg!(target_os)
    use_window,         \* --window
    use_st7789,         \* --st7789
    running,            \* main: running
    current_shader_index,    \* main: current_shader_index
    force_recreate_shaders,  \* main: force_recreate_shaders
    vertex_shader,      \* the vertex wgpu::ShaderModule held
    fragment_shader,    \* the fragment wgpu::ShaderModule held
    render_pipeline,    \* the wgpu::RenderPipeline held
    log,                \* history: what the current loop iteration (or call) did, in order
    compile_failed,     \* history: a compiler invocation could not be spawned or exited non-zero
    index_trace,        \* history: the index after each of the first MaxTriggers advance triggers
    call,               \* history: the arguments of the last Renderer::recompile_shaders call
    use_bluetooth,      \* --bluetooth
    bluetooth_data,     \* main: bluetooth_data, the cached status text
    uniforms,           \* uniforms.bluetooth_data, as last written to the uniform buffer
    received_text,      \* BluetoothServer.received_text: the Option<String> in the mutex
    lock,               \* who holds the mutex of received_text: "free" or "listener"
    listener,           \* the task running BluetoothServer::run: its position, its line
                        \* and its message_buffer
    draws               \* history: the draw calls of the current loop iteration, in order

watcher_vars == <<dir, readable, previous_metadata, polled, since, at_poll>>
conv_vars == <<conv_input, conv_flip, conv_output, conv_pc>>

config_vars == <<target_os, use_window, use_st7789>>
shader_vars == <<vertex_shader, fragment_shader, render_pipeline>>
status_vars == <<use_bluetooth, bluetooth_data, uniforms, received_text, lock, listener, draws>>
loop_vars == <<pc, config_vars, running, current_shader_index, force_recreate_shaders,
               shader_vars, log, compile_failed, index_trace, call, status_vars>>

vars == <<watcher_vars, op, conv_vars, loop_vars>>

-----------------------------------------------------------------------------
(* Bounds *)

\* modification timestamps range over 1..MaxTime
MaxTime == 2

\* the pixel buffers converted have up to MaxLen bytes
MaxLen == 8

\* the indices after the first MaxTriggers advance triggers are recorded
MaxTriggers == 5

-----------------------------------------------------------------------------
(* Option<T> and small helpers *)

None == << >>
Some(x) == << x >>

Range(s) == { s[i] : i \in 1..Len(s) }

\* all the orders in which the elements of a finite set can be visited
Orders(S) == { s \in [1..Cardinality(S) -> S] : \A i, j \in 1..Cardinality(S) : s[i] = s[j] => i = j }

EmptyMap == [f \in {} |-> 0]

-----------------------------------------------------------------------------
(* File names, as sequences of characters *)

master_vert   == <<"m","a","s","t","e","r",".","v","e","r","t">>
waves_frag    == <<"w","a","v","e","s",".","f","r","a","g">>
mutation_frag == <<"m","u","t","a","t","i","o","n",".","f","r","a","g">>
fractal_frag  == <<"f","r","a","c","t","a","l",".","f","r","a","g">>
grid_frag     == <<"g","r","i","d",".","f","r","a","g">>
rings_frag    == <<"r","i","n","g","s",".","f","r","a","g">>

SHADER_NAMES == <<waves_frag, mutation_frag, fractal_frag, grid_frag, rings_frag>>

\* other entries an editor leaves in the shader directory
notes_txt   == <<"n","o","t","e","s",".","t","x","t">>
hidden_frag == <<".","w","a","v","e","s",".","f","r","a","g">>
backup_vert == <<"m","a","s","t","e","r",".","v","e","r","t","~">>
swap_file   == <<"w","a","v","e","s",".","f","r","a","g",".","s","w","p">>

\* the two artifacts the compiler writes
master_vert_spv == <<"m","a","s","t","e","r",".","v","e","r","t",".","s","p","v">>
master_frag_spv == <<"m","a","s","t","e","r",".","f","r","a","g",".","s","p","v">>

ShaderFiles == {master_vert} \cup Range(SHADER_NAMES)
Names == ShaderFiles \cup {notes_txt, hidden_frag, backup_vert, swap_file}
               \cup {master_vert_spv, master_frag_spv}

\* the entries the environment creates, rewrites and deletes while the watcher is polled
WatcherNames == {master_vert, waves_frag, hidden_frag, backup_vert, swap_file}

Times == 1..MaxTime

-----------------------------------------------------------------------------
(* file_watcher.rs *)

starts_with(s, p) == Len(s) >= Len(p) /\ SubSeq(s, 1, Len(p)) = p
ends_with(s, p) == Len(s) >= Len(p) /\ SubSeq(s, Len(s) - Len(p) + 1, Len(s)) = p

\* a mutant of skip_entry: the .swp test is missing
skip_entry_no_swp(file_name_str) ==
    \/ starts_with(file_name_str, <<".">>)
    \/ ends_with(file_name_str, <<"~">>)

\* "Skip hidden or temp files"
skip_entry(file_name_str) ==
    \/ starts_with(file_name_str, <<".">>)
    \/ ends_with(file_name_str, <<"~">>)
    \/ ends_with(file_name_str, <<".","s","w","p">>)

\* a mutant of get_file_metadata: a directory that cannot be read is taken to be
\* as it was last listed
get_file_metadata_ignores_failure(can_read, d) ==
    [ path \in { f \in DOMAIN d : d[f] # 0 /\ ~skip_entry(f) } |-> d[path] ]

\* FileWatcher::get_file_metadata: an unreadable directory yields the empty map
get_file_metadata(can_read, d) ==
    IF ~can_read THEN EmptyMap
    ELSE [ path \in { f \in DOMAIN d : d[f] # 0 /\ ~skip_entry(f) } |-> d[path] ]

\* a mutant of check_for_changes: the held snapshot is not replaced
check_for_changes_keeps_snapshot(prev, current_metadata) ==
    LET modified_or_new == { f \in DOMAIN current_metadata :
                               IF f \in DOMAIN prev THEN prev[f] # current_metadata[f] ELSE TRUE }
        deleted == { f \in DOMAIN prev : f \notin DOMAIN current_metadata }
    IN  { [changes |-> first \o second, previous_metadata |-> prev] :
            first \in Orders(modified_or_new), second \in Orders(deleted) }

\* a mutant of check_for_changes: deleted files are not looked for
check_for_changes_no_deleted(prev, current_metadata) ==
    LET modified_or_new == { f \in DOMAIN current_metadata :
                               IF f \in DOMAIN prev THEN prev[f] # current_metadata[f] ELSE TRUE }
    IN  { [changes |-> first, previous_metadata |-> current_metadata] :
            first \in Orders(modified_or_new) }

\* FileWatcher::check_for_changes. The two loops run over HashMaps, whose iteration
\* order is arbitrary: every order of the pushes of each loop is a possible result.
\* The result is the returned vector and the new value of self.previous_metadata.
check_for_changes(prev, current_metadata) ==
    LET modified_or_new == { f \in DOMAIN current_metadata :
                               IF f \in DOMAIN prev THEN prev[f] # current_metadata[f] ELSE TRUE }
        deleted == { f \in DOMAIN prev : f \notin DOMAIN current_metadata }
    IN  { [changes |-> first \o second, previous_metadata |-> current_metadata] :
            first \in Orders(modified_or_new), second \in Orders(deleted) }

\* FileWatcher::get_changes
get_changes(prev, current_metadata) ==
    { [ret |-> IF r.changes # << >> THEN Some(r.changes) ELSE None,
       previous_metadata |-> r.previous_metadata] :
        r \in check_for_changes(prev, current_metadata) }

-----------------------------------------------------------------------------
(* The environment: an editor working in the watched directory *)

\* the claim-side reading of "hidden or temporary": first character '.', last
\* character '~', or last four characters ".swp"
IsHiddenOrTemp(n) ==
    \/ Len(n) >= 1 /\ n[1] = "."
    \/ Len(n) >= 1 /\ n[Len(n)] = "~"
    \/ Len(n) >= 4 /\ n[Len(n)-3] = "." /\ n[Len(n)-2] = "s" /\ n[Len(n)-1] = "w" /\ n[Len(n)] = "p"

Mutated(n) ==
    IF IsHiddenOrTemp(n) THEN (IF since = "nothing" THEN "hidden_or_temp" ELSE since)
    ELSE "other"

\* a file is created or rewritten: it gets a modification time it did not have
FsWrite(S) ==
    \E n \in S, t \in Times :
        /\ dir[n] # t
        /\ dir' = [dir EXCEPT ![n] = t]
        /\ since' = Mutated(n)
        /\ op' = "fs_write"
        /\ UNCHANGED <<readable, previous_metadata, polled, at_poll>>

\* a file is deleted
FsRemove(S) ==
    \E n \in S :
        /\ dir[n] # 0
        /\ dir' = [dir EXCEPT ![n] = 0]
        /\ since' = Mutated(n)
        /\ op' = "fs_remove"
        /\ UNCHANGED <<readable, previous_metadata, polled, at_poll>>

\* the directory becomes unreadable (removed, renamed, permissions taken away), or
\* readable again with the entries it had
FsSetReadable ==
    /\ readable' = ~readable
    /\ since' = "other"
    /\ op' = "fs_set_readable"
    /\ UNCHANGED <<dir, previous_metadata, polled, at_poll>>

\* the shader directory as shipped: the vertex shader and the five variants
InitialDir == [n \in Names |-> IF n \in ShaderFiles THEN 1 ELSE 0]

-----------------------------------------------------------------------------
(* The watcher on its own: FileWatcher::new, then polls and directory changes *)

\* a call of FileWatcher::get_changes
FileWatcher_get_changes ==
    \E r \in get_changes(previous_metadata, get_file_metadata(readable, dir)) :
        /\ polled' = r.ret
        /\ previous_metadata' = r.previous_metadata
        /\ at_poll' = [since |-> since, after |-> op]
        /\ since' = "nothing"
        /\ op' = "get_changes"
        /\ UNCHANGED <<dir, readable>>

\* an f32 that is a number: num / den, den > 0
Finite(num, den) == [kind |-> "finite", num |-> num, den |-> den]

\* [0.0, 0.0, 0.0]
ZeroVector == <<Finite(0, 1), Finite(0, 1), Finite(0, 1)>>

\* no listener task was spawned
NoListener == [pc |-> "none", line |-> << >>, message_buffer |-> << >>]

\* no wgpu object yet
NoModule == [id |-> 0, source |-> << >>]
NoPipeline == [id |-> 0, vertex |-> 0, fragment |-> 0]

StatusIdle ==
    /\ use_bluetooth = FALSE
    /\ bluetooth_data = << >>
    /\ uniforms = ZeroVector
    /\ received_text = None
    /\ lock = "free"
    /\ listener = NoListener
    /\ draws = << >>

LoopIdle ==
    /\ pc = "idle"
    /\ target_os = "linux"
    /\ use_window = FALSE
    /\ use_st7789 = FALSE
    /\ running = FALSE
    /\ current_shader_index = 0
    /\ force_recreate_shaders = FALSE
    /\ vertex_shader = NoModule
    /\ fragment_shader = NoModule
    /\ render_pipeline = NoPipeline
    /\ log = << >>
    /\ compile_failed = FALSE
    /\ index_trace = << >>
    /\ call = <<0, FALSE, FALSE>>
    /\ StatusIdle

ConvIdle ==
    /\ conv_input = << >>
    /\ conv_flip = FALSE
    /\ conv_output = << >>
    /\ conv_pc = "idle"

InitWatcher ==
    /\ ConvIdle
    /\ LoopIdle
    /\ dir = InitialDir
    /\ readable = TRUE
    /\ previous_metadata = get_file_metadata(readable, dir)   \* FileWatcher::new
    /\ polled = None
    /\ since = "nothing"
    /\ at_poll = [since |-> "nothing", after |-> "new"]
    /\ op = "new"

NextWatcher ==
    /\ \/ FsWrite(WatcherNames)
       \/ FsRemove(WatcherNames)
       \/ FileWatcher_get_changes
    /\ UNCHANGED <<conv_vars, loop_vars>>

SpecWatcher == InitWatcher /\ [][NextWatcher]_vars

-----------------------------------------------------------------------------
(* Claims about the watcher *)

\* the paths of an Option<Vec<PathBuf>>, none for None
ChangeSet(o) == IF o = None THEN << >> ELSE o[1]

\* C2: a poll returns None exactly when the freshly read snapshot equals the held
\* one and Some(non-empty list) otherwise; in both cases the held snapshot becomes
\* the freshly read one; a poll that directly follows a poll, with no mutation of
\* the directory in between, returns None.
C2_PollContract ==
    [][ op' = "get_changes" =>
          LET fresh == get_file_metadata(readable, dir) IN
          /\ (polled' = None) <=> (fresh = previous_metadata)
          /\ polled' # None => Len(polled') = 1 /\ Len(polled'[1]) > 0
          /\ previous_metadata' = fresh
          /\ (op = "get_changes" /\ since = "nothing") => polled' = None ]_vars

\* a second consecutive poll of a non-empty directory returned None
C2_Witness ==
    /\ op = "get_changes"
    /\ at_poll.after = "get_changes"
    /\ at_poll.since = "nothing"
    /\ polled = None
    /\ dir[waves_frag] = MaxTime
    /\ previous_metadata # EmptyMap

\* C3: the ChangeSet of a poll with held snapshot D1 and fresh snapshot D2 holds
\* exactly the paths in D2 only, in D1 only, or in both with different timestamps,
\* each exactly once, and no other path.
Differing(D1, D2) ==
    { f \in Names :
        \/ f \in DOMAIN D2 /\ f \notin DOMAIN D1
        \/ f \in DOMAIN D1 /\ f \notin DOMAIN D2
        \/ f \in DOMAIN D1 /\ f \in DOMAIN D2 /\ D1[f] # D2[f] }

C3_ExactChangeSet ==
    [][ op' = "get_changes" =>
          LET D1 == previous_metadata
              D2 == previous_metadata'
              cs == ChangeSet(polled') IN
          /\ D2 = get_file_metadata(readable, dir)
          /\ Range(cs) = Differing(D1, D2)
          /\ Len(cs) = Cardinality(Differing(D1, D2)) ]_vars

\* a poll reported one deleted and one rewritten file
C3_Witness ==
    /\ op = "get_changes"
    /\ polled # None
    /\ Len(polled[1]) = 2
    /\ dir[master_vert] = 0
    /\ dir[waves_frag] = MaxTime

\* C4: no hidden or temporary entry is ever in the held snapshot or in a ChangeSet,
\* and a poll before which only such entries were created, rewritten or deleted
\* returns None.
C4_FilteredNeverSeen ==
    /\ [](\A f \in DOMAIN previous_metadata : ~IsHiddenOrTemp(f))
    /\ [](\A i \in 1..Len(ChangeSet(polled)) : ~IsHiddenOrTemp(ChangeSet(polled)[i]))
    /\ [][ (op' = "get_changes" /\ since \in {"nothing", "hidden_or_temp"}) => polled' = None ]_vars

\* a poll returned None although a hidden file, a backup file and a swap file are
\* in the directory and entries of that kind changed since the poll before
C4_Witness ==
    /\ op = "get_changes"
    /\ at_poll.since = "hidden_or_temp"
    /\ polled = None
    /\ dir[hidden_frag] # 0 /\ dir[backup_vert] # 0 /\ dir[swap_file] # 0

-----------------------------------------------------------------------------
(* The watcher of a directory that is not always readable *)

\* the entries that change while the watcher is polled
UnreadableNames == {master_vert, waves_frag, hidden_frag}

\* a directory with the vertex shader and one variant
TwoShaders == [n \in Names |-> IF n \in {master_vert, waves_frag} THEN 1 ELSE 0]

InitWatcherUnreadable ==
    /\ ConvIdle
    /\ LoopIdle
    /\ dir = TwoShaders
    /\ readable \in BOOLEAN
    /\ previous_metadata = get_file_metadata(readable, dir)   \* FileWatcher::new
    /\ polled = None
    /\ since = "nothing"
    /\ at_poll = [since |-> "nothing", after |-> "new"]
    /\ op = "new"

NextWatcherUnreadable ==
    /\ \/ FsWrite(UnreadableNames)
       \/ FsRemove(UnreadableNames)
       \/ FsSetReadable
       \/ FileWatcher_get_changes
    /\ UNCHANGED <<conv_vars, loop_vars>>

SpecWatcherUnreadable == InitWatcherUnreadable /\ [][NextWatcherUnreadable]_vars

\* the entries of the directory that are not hidden or temporary
Visible == { f \in Names : dir[f] # 0 /\ ~IsHiddenOrTemp(f) }

\* C17: a poll returns None or a non-empty list of paths, never an error. The
\* snapshot taken of an unreadable directory is empty: at construction, and at a
\* poll, which then reports exactly the held paths (as removed). A poll that can
\* read the directory while the held snapshot is empty reports exactly the
\* non-filtered entries of the directory.
C17_UnreadableIsEmpty ==
    /\ [](polled = None \/ (Len(polled) = 1 /\ Len(polled[1]) > 0))
    /\ []((op = "new" /\ ~readable) => previous_metadata = EmptyMap)
    /\ [][ (op' = "get_changes" /\ ~readable) =>
             /\ previous_metadata' = EmptyMap
             /\ Range(ChangeSet(polled')) = DOMAIN previous_metadata
             /\ Len(ChangeSet(polled')) = Cardinality(DOMAIN previous_metadata) ]_vars
    /\ [][ (op' = "get_changes" /\ readable /\ previous_metadata = EmptyMap) =>
             /\ Range(ChangeSet(polled')) = Visible
             /\ Len(ChangeSet(polled')) = Cardinality(Visible)
             /\ DOMAIN previous_metadata' = Visible ]_vars

\* the first poll after the directory became readable reported the two shader
\* files and not the hidden file next to them
C17_Witness ==
    /\ op = "get_changes"
    /\ readable
    /\ at_poll.after = "fs_set_readable"
    /\ polled # None
    /\ Range(polled[1]) = {master_vert, waves_frag}
    /\ dir[hidden_frag] # 0
    /\ dir[waves_frag] = MaxTime

-----------------------------------------------------------------------------
(* renderer.rs: rgba8888_to_rgb565_u8 *)

\* u16 and u8 arithmetic, bit by bit
RECURSIVE BitAnd(_, _)
BitAnd(a, b) == IF a = 0 \/ b = 0 THEN 0
                ELSE (IF a % 2 = 1 /\ b % 2 = 1 THEN 1 ELSE 0) + 2 * BitAnd(a \div 2, b \div 2)

RECURSIVE BitOr(_, _)
BitOr(a, b) == IF a = 0 THEN b
               ELSE IF b = 0 THEN a
               ELSE (IF a % 2 = 1 \/ b % 2 = 1 THEN 1 ELSE 0) + 2 * BitOr(a \div 2, b \div 2)

Shl16(a, n) == (a * (2 ^ n)) % 65536      \* a << n on u16
Shr(a, n) == a \div (2 ^ n)               \* a >> n
as_u8(a) == a % 256                       \* a as u8

\* a mutant of chunks_exact: the trailing bytes make a last chunk, padded with zeroes
chunks_padded(input, size) ==
    [ i \in 1..((Len(input) + size - 1) \div size) |->
        [ k \in 1..size |-> IF (i - 1) * size + k <= Len(input)
                            THEN input[(i - 1) * size + k] ELSE 0 ] ]

\* slice::chunks_exact: the complete chunks of `size` elements, in order; the
\* remainder is left out
chunks_exact(input, size) ==
    [ i \in 1..(Len(input) \div size) |-> SubSeq(input, (i - 1) * size + 1, i * size) ]

\* a mutant of pixel_rgb565: the two bytes are pushed high byte first
pixel_rgb565_high_first(chunk, flip_order) ==
    LET r == IF flip_order THEN chunk[3] ELSE chunk[1]
        g == chunk[2]
        b == IF flip_order THEN chunk[1] ELSE chunk[3]
        rgb565 == BitOr(BitOr(Shl16(BitAnd(r, 248), 8), Shl16(BitAnd(g, 252), 3)), Shr(b, 3))
    IN  << as_u8(Shr(rgb565, 8)), as_u8(BitAnd(rgb565, 255)) >>

\* a mutant of pixel_rgb565: flip_order moves red but leaves blue where it was
pixel_rgb565_half_flip(chunk, flip_order) ==
    LET r == IF flip_order THEN chunk[3] ELSE chunk[1]
        g == chunk[2]
        b == chunk[3]
        rgb565 == BitOr(BitOr(Shl16(BitAnd(r, 248), 8), Shl16(BitAnd(g, 252), 3)), Shr(b, 3))
    IN  << as_u8(BitAnd(rgb565, 255)), as_u8(Shr(rgb565, 8)) >>

\* the body of the loop: one 4-byte chunk (chunk[0..3] is chunk[1..4] here) to the
\* two bytes pushed, low byte first
pixel_rgb565(chunk, flip_order) ==
    LET r == IF flip_order THEN chunk[3] ELSE chunk[1]
        g == chunk[2]
        b == IF flip_order THEN chunk[1] ELSE chunk[3]
        rgb565 == BitOr(BitOr(Shl16(BitAnd(r, 248), 8), Shl16(BitAnd(g, 252), 3)), Shr(b, 3))
    IN  << as_u8(BitAnd(rgb565, 255)), as_u8(Shr(rgb565, 8)) >>

RECURSIVE push_pixels(_, _, _, _)
push_pixels(chunks, i, flip_order, output) ==
    IF i > Len(chunks) THEN output
    ELSE push_pixels(chunks, i + 1, flip_order, output \o pixel_rgb565(chunks[i], flip_order))

rgba8888_to_rgb565_u8(input, flip_order) ==
    push_pixels(chunks_exact(input, 4), 1, flip_order, << >>)

-----------------------------------------------------------------------------
(* The converter on its own: one call on a buffer *)

Bytes == 0..255
ByteSamples == {0, 157, 255}

\* every buffer of up to MaxLen bytes over the sample bytes
ShortInputs == UNION { [1..n -> ByteSamples] : n \in 0..MaxLen }

\* every single pixel in which one byte takes all 256 values
SweepInputs ==
    { [k \in 1..4 |-> IF k = pos THEN v ELSE rest[k]] :
        pos \in 1..4, v \in Bytes, rest \in [1..4 -> {0, 255}] }

InitConvert ==
    /\ conv_input \in ShortInputs \cup SweepInputs
    /\ conv_flip \in BOOLEAN
    /\ conv_output = << >>
    /\ conv_pc = "call"
    /\ op = "start"
    /\ dir = InitialDir
    /\ readable = TRUE
    /\ previous_metadata = EmptyMap
    /\ polled = None
    /\ since = "nothing"
    /\ at_poll = [since |-> "nothing", after |-> "new"]
    /\ LoopIdle

Convert ==
    /\ conv_pc = "call"
    /\ conv_output' = rgba8888_to_rgb565_u8(conv_input, conv_flip)
    /\ conv_pc' = "done"
    /\ op' = "rgba8888_to_rgb565_u8"
    /\ UNCHANGED <<conv_input, conv_flip, watcher_vars, loop_vars>>

NextConvert == Convert

SpecConvert == InitConvert /\ [][NextConvert]_vars

-----------------------------------------------------------------------------
(* Claims about the converter *)

\* the RGB565 value of the claims, by arithmetic: the top 5 bits of red in bits
\* 15..11, the top 6 bits of green in bits 10..5, the top 5 bits of blue in bits 4..0
Packed565(r, g, b) == (r \div 8) * 2048 + (g \div 4) * 32 + (b \div 8)

Pixels(input) == Len(input) \div 4

\* the input with the alpha byte of pixel p replaced by alphas[p]
WithAlphas(input, alphas) ==
    [ k \in 1..Len(input) |->
        IF k % 4 = 0 /\ k \div 4 <= Pixels(input) THEN alphas[k \div 4] ELSE input[k] ]

\* C5: for every complete pixel (c0,c1,c2,a), in input order, the output holds two
\* bytes lo, hi with lo + 256*hi the packed RGB565 value of (r,g,b), low byte first;
\* the output is the same whatever the alpha bytes are.
C5_PackedLittleEndian ==
    conv_pc = "done" =>
        /\ \A p \in 1..Pixels(conv_input) :
             LET c0 == conv_input[4 * p - 3]
                 c1 == conv_input[4 * p - 2]
                 c2 == conv_input[4 * p - 1]
                 r == IF conv_flip THEN c2 ELSE c0
                 b == IF conv_flip THEN c0 ELSE c2
             IN  /\ 2 * p <= Len(conv_output)
                 /\ conv_output[2 * p - 1] \in Bytes
                 /\ conv_output[2 * p] \in Bytes
                 /\ conv_output[2 * p - 1] + 256 * conv_output[2 * p] = Packed565(r, c1, b)
        /\ \A alphas \in [1..Pixels(conv_input) -> {0, 77, 255}] :
             rgba8888_to_rgb565_u8(WithAlphas(conv_input, alphas), conv_flip) = conv_output

\* two pixels with mixed bits were converted
C5_Witness ==
    /\ conv_pc = "done"
    /\ conv_input = <<157, 255, 0, 255, 0, 157, 255, 0>>
    /\ conv_output = <<224, 159, 255, 4>>

\* C6: an input of n bytes gives floor(n/4)*2 bytes, and the trailing n mod 4 bytes
\* have no influence on them.
C6_LengthAndTail ==
    conv_pc = "done" =>
        LET n == Len(conv_input)
            whole == SubSeq(conv_input, 1, 4 * (n \div 4)) IN
        /\ Len(conv_output) = (n \div 4) * 2
        /\ \A tail \in [1..(n % 4) -> ByteSamples] :
             rgba8888_to_rgb565_u8(whole \o tail, conv_flip) = conv_output
        /\ rgba8888_to_rgb565_u8(whole, conv_flip) = conv_output

\* a buffer of one pixel and three trailing bytes gave two bytes
C6_Witness ==
    /\ conv_pc = "done"
    /\ Len(conv_input) = 7
    /\ conv_input[5] = 255
    /\ Len(conv_output) = 2

\* the input with bytes c0 and c2 of every complete pixel exchanged
SwapC0C2(input) ==
    [ k \in 1..Len(input) |->
        IF (k + 3) \div 4 > Pixels(input) THEN input[k]
        ELSE IF k % 4 = 1 THEN input[k + 2]
        ELSE IF k % 4 = 3 THEN input[k - 2]
        ELSE input[k] ]

\* C7: converting with the flag set gives what converting the input with c0 and c2
\* of every pixel exchanged gives with the flag clear (and the other way round);
\* pixel (0xFF,0x00,0x00,0xFF) gives [0x00,0xF8] with the flag clear and
\* [0x1F,0x00] with the flag set.
C7_ChannelSwap ==
    conv_pc = "done" =>
        /\ conv_output = rgba8888_to_rgb565_u8(SwapC0C2(conv_input), ~conv_flip)
        /\ conv_input = <<255, 0, 0, 255>> =>
             conv_output = IF conv_flip THEN <<31, 0>> ELSE <<0, 248>>

\* the red pixel was converted with the flag set
C7_Witness ==
    /\ conv_pc = "done"
    /\ conv_flip
    /\ conv_input = <<255, 0, 0, 255>>
    /\ conv_output = <<31, 0>>

-----------------------------------------------------------------------------
(* main.rs and renderer.rs: shader modules and the render pipeline *)

Last(s) == s[Len(s)]

\* wgpu objects of one kind are told apart by an id: a newly created object gets the
\* smallest id no object of its kind alive at its creation has
FreshId(live) ==
    CHOOSE n \in 1..(Cardinality(live) + 1) : n \notin live /\ \A m \in 1..(n - 1) : m \in live

\* the vertex modules alive: the one held and the one the held pipeline was created from
LiveVertexModules(st) == {st.vertex_shader.id, st.render_pipeline.vertex}

\* the fragment modules alive
LiveFragmentModules(st) == {st.fragment_shader.id, st.render_pipeline.fragment}

\* The state a sequence of shader operations works on: the three objects, the log,
\* whether the process panicked, whether a compiler invocation failed, the number
\* of compiler invocations so far, the local `changed`, and the files the compiler
\* invocations wrote
ShaderState(vs, fs, rp, lg, failed) ==
    [vertex_shader |-> vs, fragment_shader |-> fs, render_pipeline |-> rp, log |-> lg,
     panicked |-> FALSE, compile_failed |-> failed, compiles |-> 0, changed |-> FALSE,
     written |-> {}]

\* the directory the FileWatcher is created on (main.rs:176), a subdirectory of res/shaders
watched_directory == "uncompiled"

\* a mutant of compiled_directory: the artifacts are written next to the sources
compiled_directory_watched == "uncompiled"

\* the subdirectory of res/shaders the artifacts are in (main.rs:148-149)
compiled_directory == "compiled"

\* compiled_vertex_shader_path, compiled_fragment_shader_path: the output path of
\* the compiler invocation for a stage
compiled_shader_path(stage) ==
    [directory |-> compiled_directory,
     name |-> IF stage = "vertex" THEN master_vert_spv ELSE master_frag_spv]

\* The watched directory after the compiler invocations of a sequence of shader
\* operations: an artifact written into it is an entry with a new modification time
store_artifacts(d, written) ==
    [n \in Names |-> IF [directory |-> watched_directory, name |-> n] \in written
                     THEN (IF d[n] = 1 THEN MaxTime ELSE 1)
                     ELSE d[n]]

\* a mutant of compile_shader: the exit status is not looked at
compile_shader_ignores_status(st, stage, shader_path, d, fail_at) ==
    IF st.panicked THEN st
    ELSE LET k == st.compiles + 1
             success == d[shader_path] # 0 /\ k # fail_at
         IN  [st EXCEPT !.compiles = k,
                        !.log = Append(@, "compile_" \o stage),
                        !.compile_failed = @ \/ ~success,
                        !.written = IF success THEN @ \cup {compiled_shader_path(stage)} ELSE @]

\* compile_shader (main.rs:545, renderer.rs:498): runs glslc on shader_path, with
\* the artifact of the stage as its output, and
\* panics when it cannot be spawned or exits non-zero. The invocation fails when the
\* source file does not exist, and when the environment says so (fail_at names the
\* invocation of this call that fails, 0 for none).
compile_shader(st, stage, shader_path, d, fail_at) ==
    IF st.panicked THEN st
    ELSE LET k == st.compiles + 1
             success == d[shader_path] # 0 /\ k # fail_at
         IN  [st EXCEPT !.compiles = k,
                        !.log = Append(@, "compile_" \o stage),
                        !.compile_failed = @ \/ ~success,
                        !.panicked = ~success,
                        !.written = IF success THEN @ \cup {compiled_shader_path(stage)} ELSE @]

\* *vertex_shader = device.create_shader_module(<the artifact just compiled>)
load_vertex_shader(st, shader_path, d) ==
    IF st.panicked THEN st
    ELSE [st EXCEPT !.vertex_shader = [id |-> FreshId(LiveVertexModules(st)), source |-> shader_path],
                    !.log = Append(@, "load_vertex")]

\* *fragment_shader = device.create_shader_module(<the artifact just compiled>)
load_fragment_shader(st, shader_path, d) ==
    IF st.panicked THEN st
    ELSE [st EXCEPT !.fragment_shader = [id |-> FreshId(LiveFragmentModules(st)), source |-> shader_path],
                    !.log = Append(@, "load_fragment")]

\* create_render_pipeline, assigned to the pipeline held
create_render_pipeline(st) ==
    IF st.panicked THEN st
    ELSE [st EXCEPT !.render_pipeline = [id |-> FreshId({st.render_pipeline.id}),
                                         vertex |-> st.vertex_shader.id,
                                         fragment |-> st.fragment_shader.id],
                    !.log = Append(@, "create_render_pipeline")]

\* a mutant of reload_path: a changed .vert file reloads the fragment shader too
reload_path_vert_reloads_both(st, path, vertex_shader_path, fragment_shader_path, d, fail_at) ==
    LET s1 == IF ends_with(path, <<".","v","e","r","t">>)
              THEN [load_vertex_shader(compile_shader(st, "vertex", vertex_shader_path, d, fail_at),
                                       vertex_shader_path, d) EXCEPT !.changed = TRUE]
              ELSE st
    IN  IF ends_with(path, <<".","f","r","a","g">>) \/ ends_with(path, <<".","v","e","r","t">>)
        THEN [load_fragment_shader(compile_shader(s1, "fragment", fragment_shader_path, d, fail_at),
                                   fragment_shader_path, d) EXCEPT !.changed = TRUE]
        ELSE s1

\* a mutant of reload_path: the .frag branch does not set `changed`
reload_path_frag_unflagged(st, path, vertex_shader_path, fragment_shader_path, d, fail_at) ==
    LET s1 == IF ends_with(path, <<".","v","e","r","t">>)
              THEN [load_vertex_shader(compile_shader(st, "vertex", vertex_shader_path, d, fail_at),
                                       vertex_shader_path, d) EXCEPT !.changed = TRUE]
              ELSE st
    IN  IF ends_with(path, <<".","f","r","a","g">>)
        THEN load_fragment_shader(compile_shader(s1, "fragment", fragment_shader_path, d, fail_at),
                                  fragment_shader_path, d)
        ELSE s1

\* a mutant of reload_path: the .frag branch compiles and loads the file that changed
reload_path_compiles_changed(st, path, vertex_shader_path, fragment_shader_path, d, fail_at) ==
    LET s1 == IF ends_with(path, <<".","v","e","r","t">>)
              THEN [load_vertex_shader(compile_shader(st, "vertex", vertex_shader_path, d, fail_at),
                                       vertex_shader_path, d) EXCEPT !.changed = TRUE]
              ELSE st
    IN  IF ends_with(path, <<".","f","r","a","g">>)
        THEN [load_fragment_shader(compile_shader(s1, "fragment", path, d, fail_at),
                                   path, d) EXCEPT !.changed = TRUE]
        ELSE s1

\* check_and_reload_shaders, the body of `for path in paths`
reload_path(st, path, vertex_shader_path, fragment_shader_path, d, fail_at) ==
    LET s1 == IF ends_with(path, <<".","v","e","r","t">>)
              THEN [load_vertex_shader(compile_shader(st, "vertex", vertex_shader_path, d, fail_at),
                                       vertex_shader_path, d) EXCEPT !.changed = TRUE]
              ELSE st
    IN  IF ends_with(path, <<".","f","r","a","g">>)
        THEN [load_fragment_shader(compile_shader(s1, "fragment", fragment_shader_path, d, fail_at),
                                   fragment_shader_path, d) EXCEPT !.changed = TRUE]
        ELSE s1

RECURSIVE reload_paths(_, _, _, _, _, _, _)
reload_paths(st, paths, i, vertex_shader_path, fragment_shader_path, d, fail_at) ==
    IF i > Len(paths) THEN st
    ELSE reload_paths(reload_path(st, paths[i], vertex_shader_path, fragment_shader_path, d, fail_at),
                      paths, i + 1, vertex_shader_path, fragment_shader_path, d, fail_at)

\* a mutant of check_and_reload_shaders: a forced reload leaves the fragment shader
check_and_reload_shaders_force_vertex_only(st, changes, vertex_shader_path, fragment_shader_path, force, d, fail_at) ==
    LET s0 == [st EXCEPT !.changed = force]
        s1 == IF force
              THEN load_vertex_shader(
                       compile_shader(s0, "vertex", vertex_shader_path, d, fail_at),
                       vertex_shader_path, d)
              ELSE IF changes # None
              THEN reload_paths(s0, changes[1], 1, vertex_shader_path, fragment_shader_path, d, fail_at)
              ELSE s0
    IN  IF s1.changed THEN create_render_pipeline(s1) ELSE s1

\* a mutant of check_and_reload_shaders: a forced reload leaves the vertex shader
check_and_reload_shaders_force_fragment_only(st, changes, vertex_shader_path, fragment_shader_path, force, d, fail_at) ==
    LET s0 == [st EXCEPT !.changed = force]
        s1 == IF force
              THEN load_fragment_shader(
                       compile_shader(s0, "fragment", fragment_shader_path, d, fail_at),
                       fragment_shader_path, d)
              ELSE IF changes # None
              THEN reload_paths(s0, changes[1], 1, vertex_shader_path, fragment_shader_path, d, fail_at)
              ELSE s0
    IN  IF s1.changed THEN create_render_pipeline(s1) ELSE s1

\* a mutant of check_and_reload_shaders: the pipeline is recreated after each path
\* that was recompiled
check_and_reload_shaders_rebuild_per_path(st, changes, vertex_shader_path, fragment_shader_path, force, d, fail_at) ==
    LET s0 == [st EXCEPT !.changed = force]
        per_path[i \in 0..Len(ChangeSet(changes))] ==
            IF i = 0 THEN s0
            ELSE LET s == reload_path([per_path[i - 1] EXCEPT !.changed = FALSE], changes[1][i],
                                      vertex_shader_path, fragment_shader_path, d, fail_at)
                 IN  IF s.changed THEN create_render_pipeline(s) ELSE s
    IN  IF force
        THEN create_render_pipeline(
                 load_fragment_shader(
                     compile_shader(
                         load_vertex_shader(
                             compile_shader(s0, "vertex", vertex_shader_path, d, fail_at),
                             vertex_shader_path, d),
                         "fragment", fragment_shader_path, d, fail_at),
                     fragment_shader_path, d))
        ELSE per_path[Len(ChangeSet(changes))]

\* check_and_reload_shaders (main.rs:698). `changes` is what file_watcher.get_changes()
\* returned; it is not called (and `changes` not read) when force is set.
check_and_reload_shaders(st, changes, vertex_shader_path, fragment_shader_path, force, d, fail_at) ==
    LET s0 == [st EXCEPT !.changed = force]
        s1 == IF force
              THEN load_fragment_shader(
                       compile_shader(
                           load_vertex_shader(
                               compile_shader(s0, "vertex", vertex_shader_path, d, fail_at),
                               vertex_shader_path, d),
                           "fragment", fragment_shader_path, d, fail_at),
                       fragment_shader_path, d)
              ELSE IF changes # None
              THEN reload_paths(s0, changes[1], 1, vertex_shader_path, fragment_shader_path, d, fail_at)
              ELSE s0
    IN  IF s1.changed THEN create_render_pipeline(s1) ELSE s1

\* a mutant of recompile_shaders: the pipeline is rebuilt only when a module changed
recompile_shaders_lazy_pipeline(st, shader_index, recompile_vertex_shader, recompile_fragment_shader, d, fail_at) ==
    LET s1 == IF recompile_vertex_shader
              THEN load_vertex_shader(compile_shader(st, "vertex", master_vert, d, fail_at),
                                      master_vert, d)
              ELSE st
        s2 == IF recompile_fragment_shader
              THEN load_fragment_shader(
                       compile_shader(s1, "fragment", SHADER_NAMES[shader_index + 1], d, fail_at),
                       SHADER_NAMES[shader_index + 1], d)
              ELSE s1
    IN  IF recompile_vertex_shader \/ recompile_fragment_shader THEN create_render_pipeline(s2) ELSE s2

\* Renderer::recompile_shaders (renderer.rs:280)
recompile_shaders(st, shader_index, recompile_vertex_shader, recompile_fragment_shader, d, fail_at) ==
    LET s1 == IF recompile_vertex_shader
              THEN load_vertex_shader(compile_shader(st, "vertex", master_vert, d, fail_at),
                                      master_vert, d)
              ELSE st
        s2 == IF recompile_fragment_shader
              THEN load_fragment_shader(
                       compile_shader(s1, "fragment", SHADER_NAMES[shader_index + 1], d, fail_at),
                       SHADER_NAMES[shader_index + 1], d)
              ELSE s1
    IN  create_render_pipeline(s2)

\* main.rs:228-241: the initial compilation, the two modules and the pipeline
initial_shaders(st, d, fail_at) ==
    create_render_pipeline(
        load_fragment_shader(
            compile_shader(
                load_vertex_shader(compile_shader(st, "vertex", master_vert, d, fail_at), master_vert, d),
                "fragment", SHADER_NAMES[1], d, fail_at),
            SHADER_NAMES[1], d))

-----------------------------------------------------------------------------
(* main.rs:359-367, renderer.rs:258-268: the status vector of a status text *)

\* the status feed is text over these characters besides letters; the other
\* characters a float literal may have (an exponent) are not among them
Digits == <<"0", "1", "2", "3", "4", "5", "6", "7", "8", "9">>

is_whitespace(c) == c = " "
is_digit(c) == c \in Range(Digits)
to_digit(c) == (CHOOSE i \in 1..Len(Digits) : Digits[i] = c) - 1

\* str::trim
RECURSIVE trim_start(_)
trim_start(s) == IF s # << >> /\ is_whitespace(Head(s)) THEN trim_start(Tail(s)) ELSE s

RECURSIVE trim_end(_)
trim_end(s) == IF s # << >> /\ is_whitespace(Last(s)) THEN trim_end(SubSeq(s, 1, Len(s) - 1)) ELSE s

trim(s) == trim_end(trim_start(s))

\* str::split(c): the pieces between the occurrences of c, at least one piece
RECURSIVE split_from(_, _, _, _)
split_from(s, c, i, piece) ==
    IF i > Len(s) THEN <<piece>>
    ELSE IF s[i] = c THEN <<piece>> \o split_from(s, c, i + 1, << >>)
    ELSE split_from(s, c, i + 1, Append(piece, s[i]))

split(s, c) == split_from(s, c, 1, << >>)

\* the number a string of digits denotes, and ten to the number of its digits
RECURSIVE digits_value(_)
digits_value(s) == IF s = << >> THEN 0 ELSE 10 * digits_value(SubSeq(s, 1, Len(s) - 1)) + to_digit(Last(s))

all_digits(s) == \A i \in 1..Len(s) : is_digit(s[i])

\* <f32 as FromStr>::from_str, on the characters above: an optional sign, then
\* "inf", "infinity", "nan", or digits with at most one '.' and at least one digit.
\* None stands for Err.
parse_f32(s) ==
    LET negative == s # << >> /\ Head(s) = "-"
        signed   == s # << >> /\ Head(s) \in {"-", "+"}
        body     == IF signed THEN Tail(s) ELSE s
        sign     == IF negative THEN -1 ELSE 1
        parts    == split(body, ".")
        int_part == parts[1]
        frac     == IF Len(parts) = 2 THEN parts[2] ELSE << >>
    IN  IF body \in {<<"i","n","f">>, <<"i","n","f","i","n","i","t","y">>}
        THEN Some([kind |-> "inf", num |-> sign, den |-> 1])
        ELSE IF body = <<"n","a","n">>
        THEN Some([kind |-> "nan", num |-> 0, den |-> 1])
        ELSE IF /\ Len(parts) <= 2
                /\ all_digits(int_part) /\ all_digits(frac)
                /\ Len(int_part) + Len(frac) > 0
        THEN Some(Finite(sign * digits_value(int_part \o frac), 10 ^ Len(frac)))
        ELSE None

\* a mutant of clamp: the lower limit is not applied
clamp_upper_only(v, min, max) ==
    IF v.kind = "nan" THEN v
    ELSE IF v.kind = "inf" THEN Finite(IF v.num < 0 THEN min ELSE max, 1)
    ELSE IF v.num > max * v.den THEN Finite(max, 1)
    ELSE v

\* f32::clamp(v, min, max) for whole min and max: NaN stays NaN, an infinity
\* becomes the limit on its side
clamp(v, min, max) ==
    IF v.kind = "nan" THEN v
    ELSE IF v.kind = "inf" THEN Finite(IF v.num < 0 THEN min ELSE max, 1)
    ELSE IF v.num < min * v.den THEN Finite(min, 1)
    ELSE IF v.num > max * v.den THEN Finite(max, 1)
    ELSE v

\* v / 10.0, for a v that is finite or NaN
div10(v) == IF v.kind = "nan" THEN v ELSE Finite(v.num, v.den * 10)


\* a mutant of update_uniforms: a line that does not parse gives the zero vector
update_uniforms_fallback(text) ==
    IF trim(text) = << >>
    THEN [panicked |-> FALSE, bluetooth_data |-> ZeroVector]
    ELSE LET pairs == split(text, ",")
             field(s) == split(s, ":")
             ok(s) == Len(field(s)) >= 2 /\ parse_f32(trim(field(s)[2])) # None
             value(s) == div10(clamp(parse_f32(trim(field(s)[2]))[1], -10, 10))
         IN  IF (\A i \in 1..Len(pairs) : ok(pairs[i])) /\ Len(pairs) = 3
             THEN [panicked |-> FALSE, bluetooth_data |-> [i \in 1..3 |-> value(pairs[i])]]
             ELSE [panicked |-> FALSE, bluetooth_data |-> ZeroVector]

\* a mutant of update_uniforms: the text is not tested for being empty
update_uniforms_no_empty_test(text) ==
    LET pairs == split(text, ",")
        field(s) == split(s, ":")
        ok(s) == Len(field(s)) >= 2 /\ parse_f32(trim(field(s)[2])) # None
        value(s) == div10(clamp(parse_f32(trim(field(s)[2]))[1], -10, 10))
    IN  IF (\A i \in 1..Len(pairs) : ok(pairs[i])) /\ Len(pairs) = 3
        THEN [panicked |-> FALSE, bluetooth_data |-> [i \in 1..3 |-> value(pairs[i])]]
        ELSE [panicked |-> TRUE, bluetooth_data |-> << >>]

\* The value of uniforms.bluetooth_data (main.rs:360-367, renderer.rs:261-268):
\* the zero vector for a text that is empty once trimmed; else the text is split
\* at ',', of each piece the second ':'-separated field is trimmed and parsed, and
\* the values are collected into a [f32; 3]. The three unwraps panic: on a piece
\* without ':', on a value that does not parse, on a number of pieces other than 3.
update_uniforms(text) ==
    IF trim(text) = << >>
    THEN [panicked |-> FALSE, bluetooth_data |-> ZeroVector]
    ELSE LET pairs == split(text, ",")
             field(s) == split(s, ":")
             ok(s) == Len(field(s)) >= 2 /\ parse_f32(trim(field(s)[2])) # None
             value(s) == div10(clamp(parse_f32(trim(field(s)[2]))[1], -10, 10))
         IN  IF (\A i \in 1..Len(pairs) : ok(pairs[i])) /\ Len(pairs) = 3
             THEN [panicked |-> FALSE, bluetooth_data |-> [i \in 1..3 |-> value(pairs[i])]]
             ELSE [panicked |-> TRUE, bluetooth_data |-> << >>]

-----------------------------------------------------------------------------
(* Renderer::update_uniforms on its own: one call on a status text *)

\* the status texts have up to MaxPairs comma-separated pieces
MaxPairs == 4

\* pieces of a status line: what is written, whether it is a key:value pair with
\* a numeric value, and that value as num / den
Piece(text, numeric, num, den) == [text |-> text, numeric |-> numeric, num |-> num, den |-> den]

Pieces == {
    Piece(<<"x",":","3">>, TRUE, 3, 1),
    Piece(<<"y",":","-","1","5">>, TRUE, -15, 1),
    Piece(<<"z",":","0">>, TRUE, 0, 1),
    Piece(<<"w",":"," ","2",".","5"," ">>, TRUE, 25, 10),
    Piece(<<"v",":","+","1","2">>, TRUE, 12, 1),
    Piece(<<"k">>, FALSE, 0, 1),
    Piece(<<"q",":","a">>, FALSE, 0, 1),
    Piece(<<"n",":","n","a","n">>, FALSE, 0, 1),
    Piece(<<"i",":","-","i","n","f">>, FALSE, 0, 1) }

\* the line made of the pieces ps: their texts, separated by ','
RECURSIVE Line(_)
Line(ps) ==
    IF Len(ps) = 0 THEN << >>
    ELSE IF Len(ps) = 1 THEN ps[1].text
    ELSE ps[1].text \o <<",">> \o Line(Tail(ps))

StatusTexts ==
    { Line(ps) : ps \in UNION { [1..n -> Pieces] : n \in 0..MaxPairs } }
        \cup { <<" ">>, <<" ", " ">> }

InitUniforms ==
    /\ ConvIdle
    /\ dir = InitialDir
    /\ readable = TRUE
    /\ previous_metadata = EmptyMap
    /\ polled = None
    /\ since = "nothing"
    /\ at_poll = [since |-> "nothing", after |-> "new"]
    /\ op = "new"
    /\ pc = "update_uniforms"
    /\ target_os = "linux"
    /\ use_window = FALSE
    /\ use_st7789 = FALSE
    /\ running = FALSE
    /\ current_shader_index = 0
    /\ force_recreate_shaders = FALSE
    /\ vertex_shader = NoModule
    /\ fragment_shader = NoModule
    /\ render_pipeline = NoPipeline
    /\ log = << >>
    /\ compile_failed = FALSE
    /\ index_trace = << >>
    /\ call = <<0, FALSE, FALSE>>
    /\ use_bluetooth = FALSE
    /\ bluetooth_data \in StatusTexts
    /\ uniforms = ZeroVector
    /\ received_text = None
    /\ lock = "free"
    /\ listener = NoListener
    /\ draws = << >>

\* a call of Renderer::update_uniforms(elapsed_time, bluetooth_data)
RendererUpdateUniforms ==
    /\ pc = "update_uniforms"
    /\ op' = "update_uniforms"
    /\ LET r == update_uniforms(bluetooth_data)
       IN  IF r.panicked
           THEN pc' = "panicked" /\ UNCHANGED <<uniforms, log>>
           ELSE /\ pc' = "renderer"
                /\ uniforms' = r.bluetooth_data
                /\ log' = Append(log, "write_buffer")
    /\ UNCHANGED <<watcher_vars, conv_vars, config_vars, running, current_shader_index,
                   force_recreate_shaders, shader_vars, compile_failed, index_trace, call,
                   use_bluetooth, bluetooth_data, received_text, lock, listener, draws>>

NextUniforms == RendererUpdateUniforms

SpecUniforms == InitUniforms /\ [][NextUniforms]_vars

\* num1 / den1 = num2 / den2
SameNumber(v, num, den) == v.kind = "finite" /\ v.num * den = num * v.den

\* clamp(num / den, -10, 10) / 10, as a numerator over 10 * den
ScaledNumerator(num, den) ==
    IF num > 10 * den THEN 10 * den ELSE IF num < -(10 * den) THEN -(10 * den) ELSE num

IsBlank(text) == \A i \in 1..Len(text) : text[i] = " "

-----------------------------------------------------------------------------
(* little-shader-display/src/main.rs: main *)

TargetOS == {"linux"}

\* render_pass.draw(0..vertices, 0..instances) in the render pass of a sink
draw(sink, vertices, instances) == [sink |-> sink, vertices |-> vertices, instances |-> instances]

\* the entries an editor creates, rewrites and deletes while the program runs
LoopNames == {master_vert, waves_frag}

\* a mutant of next_shader_index: the list is taken to have four entries
next_shader_index_mod4(i) == (i + 1) % (Len(SHADER_NAMES) - 1)

\* current_shader_index = (current_shader_index + 1) % SHADER_NAMES.len()
next_shader_index(i) == (i + 1) % Len(SHADER_NAMES)

\* a mutant of args_rejected: the check for Linux is missing
args_rejected_windows_only(window, st7789, os) ==
    \/ st7789 /\ os = "windows"
    \/ ~window /\ os = "windows"

\* main.rs:134-144: the combinations of flags that end startup with a panic
args_rejected(window, st7789, os) ==
    \/ st7789 /\ os = "windows"
    \/ ~window /\ os = "windows"
    \/ ~window /\ ~st7789 /\ os = "linux"

Init ==
    /\ ConvIdle
    /\ dir = InitialDir
    /\ readable = TRUE
    /\ previous_metadata = EmptyMap
    /\ polled = None
    /\ since = "nothing"
    /\ at_poll = [since |-> "nothing", after |-> "new"]
    /\ op = "start"
    /\ pc = "start"
    /\ target_os \in TargetOS
    /\ use_window \in BOOLEAN
    /\ use_st7789 \in BOOLEAN
    /\ running = TRUE
    /\ current_shader_index = 0
    /\ force_recreate_shaders = FALSE
    /\ vertex_shader = NoModule
    /\ fragment_shader = NoModule
    /\ render_pipeline = NoPipeline
    /\ log = << >>
    /\ compile_failed = FALSE
    /\ index_trace = << >>
    /\ call = <<0, FALSE, FALSE>>
    /\ StatusIdle

\* main.rs:118-298: the argument checks, FileWatcher::new, the initial shaders,
\* and with --bluetooth the spawn of the task that runs BluetoothServer::run
Startup ==
    /\ pc = "start"
    /\ op' = "startup"
    /\ IF args_rejected(use_window, use_st7789, target_os)
       THEN /\ pc' = "panicked"
            /\ UNCHANGED <<watcher_vars, shader_vars, log, compile_failed, listener>>
       ELSE \E fail_at \in 0..2 :
              LET st == initial_shaders(
                            ShaderState(vertex_shader, fragment_shader, render_pipeline, log, compile_failed),
                            dir, fail_at)
              IN  /\ previous_metadata' = get_file_metadata(readable, dir)
                  /\ since' = "nothing"
                  /\ vertex_shader' = st.vertex_shader
                  /\ fragment_shader' = st.fragment_shader
                  /\ render_pipeline' = st.render_pipeline
                  /\ log' = st.log
                  /\ compile_failed' = st.compile_failed
                  /\ pc' = IF st.panicked THEN "panicked" ELSE "bluetooth"
                  /\ listener' = IF use_bluetooth /\ ~st.panicked
                                  THEN [NoListener EXCEPT !.pc = "starting"]
                                  ELSE listener
                  /\ dir' = store_artifacts(dir, st.written)
                  /\ UNCHANGED <<readable, polled, at_poll>>
    /\ UNCHANGED <<conv_vars, config_vars, running, current_shader_index,
                   force_recreate_shaders, index_trace, call,
                   use_bluetooth, bluetooth_data, uniforms, received_text, lock, draws>>

\* a mutant of BluetoothPoll: the lock is waited for
BluetoothPollBlocking ==
    /\ pc = "bluetooth"
    /\ use_bluetooth => lock = "free"
    /\ op' = "bluetooth_poll"
    /\ polled' = None
    /\ draws' = << >>
    /\ IF ~use_bluetooth
       THEN log' = << >> /\ bluetooth_data' = bluetooth_data
       ELSE /\ log' = <<"try_lock_ok">>
            /\ bluetooth_data' = IF received_text # None THEN received_text[1] ELSE bluetooth_data
    /\ pc' = "events"
    /\ UNCHANGED <<dir, readable, previous_metadata, since, at_poll, conv_vars, config_vars, running,
                   current_shader_index, force_recreate_shaders, shader_vars, compile_failed,
                   index_trace, call, use_bluetooth, uniforms, received_text, lock, listener>>

\* main.rs:316-329: a new iteration starts. With --bluetooth the shared cell is
\* looked at under try_lock, which returns at once: an error when the listener task
\* holds the mutex, else the guard, under which the line in the cell, when there
\* is one, is cloned into bluetooth_data before the guard is dropped.
BluetoothPoll ==
    /\ pc = "bluetooth"
    /\ op' = "bluetooth_poll"
    /\ polled' = None
    /\ draws' = << >>
    /\ IF ~use_bluetooth
       THEN log' = << >> /\ bluetooth_data' = bluetooth_data
       ELSE IF lock = "free"
       THEN /\ log' = <<"try_lock_ok">>
            /\ bluetooth_data' = IF received_text # None THEN received_text[1] ELSE bluetooth_data
       ELSE log' = <<"try_lock_err">> /\ bluetooth_data' = bluetooth_data
    /\ pc' = "events"
    /\ UNCHANGED <<dir, readable, previous_metadata, since, at_poll, conv_vars, config_vars, running,
                   current_shader_index, force_recreate_shaders, shader_vars, compile_failed,
                   index_trace, call, use_bluetooth, uniforms, received_text, lock, listener>>

\* a mutant of HandleWindowEvents: a close request can arrive without a window
HandleWindowEventsWithoutWindow ==
    /\ pc = "events"
    /\ op' = "handle_window_event"
    /\ \E close_requested \in BOOLEAN :
         /\ running' = IF close_requested THEN FALSE ELSE running
         /\ log' = IF close_requested THEN Append(log, "close_requested") ELSE log
    /\ pc' = "input"
    /\ UNCHANGED <<watcher_vars, conv_vars, status_vars, config_vars, current_shader_index,
                   force_recreate_shaders, shader_vars, compile_failed, index_trace, call>>

\* a mutant of HandleWindowEvents: a close request leaves the loop at once
HandleWindowEventsBreaks ==
    /\ pc = "events"
    /\ op' = "handle_window_event"
    /\ \E close_requested \in (IF use_window THEN BOOLEAN ELSE {FALSE}) :
         /\ running' = IF close_requested THEN FALSE ELSE running
         /\ log' = IF close_requested THEN Append(log, "close_requested") ELSE log
         /\ pc' = IF close_requested THEN "exited" ELSE "input"
    /\ UNCHANGED <<watcher_vars, conv_vars, status_vars, config_vars, current_shader_index,
                   force_recreate_shaders, shader_vars, compile_failed, index_trace, call>>

\* main.rs:331-340: handle_window_event when a window is used
HandleWindowEvents ==
    /\ pc = "events"
    /\ op' = "handle_window_event"
    /\ \E close_requested \in (IF use_window THEN BOOLEAN ELSE {FALSE}) :
         /\ running' = IF close_requested THEN FALSE ELSE running
         /\ log' = IF close_requested THEN Append(log, "close_requested") ELSE log
    /\ pc' = "input"
    /\ UNCHANGED <<watcher_vars, conv_vars, status_vars, config_vars, current_shader_index,
                   force_recreate_shaders, shader_vars, compile_failed, index_trace, call>>

\* main.rs:342-351: one non-blocking read of a byte from stdin
HandleInput ==
    /\ pc = "input"
    /\ \E byte \in {"none", "space", "other"} :
         IF byte = "space"
         THEN /\ current_shader_index' = next_shader_index(current_shader_index)
              /\ force_recreate_shaders' = TRUE
              /\ index_trace' = IF Len(index_trace) < MaxTriggers
                                THEN Append(index_trace, next_shader_index(current_shader_index))
                                ELSE index_trace
              /\ log' = Append(log, "advance")
              /\ op' = "input_space"
         ELSE /\ force_recreate_shaders' = FALSE
              /\ op' = "input"
              /\ UNCHANGED <<current_shader_index, index_trace, log>>
    /\ pc' = "uniforms"
    /\ UNCHANGED <<watcher_vars, conv_vars, status_vars, config_vars, running, shader_vars,
                   compile_failed, call>>

\* a mutant of UpdateUniforms: the uniforms are computed and not written
UpdateUniformsUnwritten ==
    /\ pc = "uniforms"
    /\ op' = "update_uniforms"
    /\ LET r == update_uniforms(bluetooth_data)
       IN  IF r.panicked
           THEN pc' = "panicked" /\ UNCHANGED <<uniforms, log>>
           ELSE /\ pc' = "reload"
                /\ uniforms' = r.bluetooth_data
                /\ log' = log
    /\ UNCHANGED <<watcher_vars, conv_vars, config_vars, running, current_shader_index,
                   force_recreate_shaders, shader_vars, compile_failed, index_trace, call,
                   use_bluetooth, bluetooth_data, received_text, lock, listener, draws>>

\* main.rs:353-376: uniforms.bluetooth_data is computed from the cached text, which
\* panics on a text that does not parse; then the uniforms are written to the
\* uniform buffer
UpdateUniforms ==
    /\ pc = "uniforms"
    /\ op' = "update_uniforms"
    /\ LET r == update_uniforms(bluetooth_data)
       IN  IF r.panicked
           THEN pc' = "panicked" /\ UNCHANGED <<uniforms, log>>
           ELSE /\ pc' = "reload"
                /\ uniforms' = r.bluetooth_data
                /\ log' = Append(log, "write_buffer")
    /\ UNCHANGED <<watcher_vars, conv_vars, config_vars, running, current_shader_index,
                   force_recreate_shaders, shader_vars, compile_failed, index_trace, call,
                   use_bluetooth, bluetooth_data, received_text, lock, listener, draws>>

\* a mutant of poll_unless_forced: the directory is polled in a forced call too,
\* and what the poll reports is dropped
poll_always(force, prev, current_metadata) ==
    { [ret |-> IF force THEN None ELSE r.ret, previous_metadata |-> r.previous_metadata,
       polled |-> TRUE] : r \in get_changes(prev, current_metadata) }

\* a mutant of poll_unless_forced: a forced call takes a new snapshot
poll_refreshes_on_force(force, prev, current_metadata) ==
    IF force
    THEN {[ret |-> None, previous_metadata |-> current_metadata, polled |-> FALSE]}
    ELSE { [ret |-> r.ret, previous_metadata |-> r.previous_metadata, polled |-> TRUE] :
             r \in get_changes(prev, current_metadata) }

\* check_and_reload_shaders, `if force { ... } else if let Some(paths) =
\* file_watcher.get_changes()` (main.rs:714-727): get_changes is called only when
\* force is false. Gives what the call returned, the snapshot kept afterwards and
\* whether the directory was polled.
poll_unless_forced(force, prev, current_metadata) ==
    IF force
    THEN {[ret |-> None, previous_metadata |-> prev, polled |-> FALSE]}
    ELSE { [ret |-> r.ret, previous_metadata |-> r.previous_metadata, polled |-> TRUE] :
             r \in get_changes(prev, current_metadata) }

\* main.rs:385-399 and 698-774: the call of check_and_reload_shaders
CheckAndReloadShaders ==
    /\ pc = "reload"
    /\ op' = "check_and_reload_shaders"
    /\ \E r \in poll_unless_forced(force_recreate_shaders, previous_metadata,
                                    get_file_metadata(readable, dir)) :
         \E fail_at \in 0..(IF force_recreate_shaders THEN 2 ELSE Len(ChangeSet(r.ret))) :
           LET st == check_and_reload_shaders(
                         ShaderState(vertex_shader, fragment_shader, render_pipeline,
                                     IF r.polled THEN Append(log, "get_changes") ELSE log,
                                     compile_failed),
                         r.ret, master_vert, SHADER_NAMES[current_shader_index + 1],
                         force_recreate_shaders, dir, fail_at)
           IN  /\ previous_metadata' = r.previous_metadata
               /\ IF r.polled
                  THEN polled' = r.ret /\ since' = "nothing"
                  ELSE UNCHANGED <<polled, since>>
               /\ dir' = store_artifacts(dir, st.written)
               /\ vertex_shader' = st.vertex_shader
               /\ fragment_shader' = st.fragment_shader
               /\ render_pipeline' = st.render_pipeline
               /\ log' = st.log
               /\ compile_failed' = st.compile_failed
               /\ pc' = IF st.panicked THEN "panicked" ELSE "render_window"
    /\ UNCHANGED <<readable, at_poll, conv_vars, status_vars, config_vars, running,
                   current_shader_index, force_recreate_shaders, index_trace, call>>

\* main.rs:401-411 and 603-647: render_to_window when a window is used; it panics
\* when the surface gives no texture
RenderToWindow ==
    /\ pc = "render_window"
    /\ op' = "render_to_window"
    /\ IF use_window
       THEN \E texture_ok \in BOOLEAN :
              IF texture_ok
              THEN /\ log' = Append(log, "draw_window")
                   /\ draws' = Append(draws, draw("window", 6, 1))
                   /\ pc' = "render_st7789"
              ELSE log' = log /\ draws' = draws /\ pc' = "panicked"
       ELSE log' = log /\ draws' = draws /\ pc' = "render_st7789"
    /\ UNCHANGED <<watcher_vars, conv_vars, config_vars, running, current_shader_index,
                   force_recreate_shaders, shader_vars, compile_failed, index_trace, call,
                   use_bluetooth, bluetooth_data, uniforms, received_text, lock, listener>>

\* main.rs:413-427 and 649-692, 777-810: render_to_st7789 when the display is used
\* (Linux builds only), up to the first poll of read_texture: the draw call is
\* submitted, then the copy of the texture into the buffer, and the mapping of the
\* buffer is asked for. Without the display the loop condition is tested.
RenderToSt7789 ==
    /\ pc = "render_st7789"
    /\ op' = "render_to_st7789"
    /\ IF use_st7789 /\ target_os = "linux"
       THEN /\ log' = Append(log, "draw_st7789")
            /\ draws' = Append(draws, draw("st7789", 6, 1))
            /\ pc' = "read_texture"
       ELSE /\ log' = log
            /\ draws' = draws
            /\ pc' = IF running THEN "bluetooth" ELSE "exited"
    /\ UNCHANGED <<watcher_vars, conv_vars, config_vars, running, current_shader_index,
                   force_recreate_shaders, shader_vars, compile_failed, index_trace, call,
                   use_bluetooth, bluetooth_data, uniforms, received_text, lock, listener>>

\* what no step of read_texture changes
ReadTextureFrame ==
    UNCHANGED <<watcher_vars, conv_vars, config_vars, running, current_shader_index,
                force_recreate_shaders, shader_vars, log, compile_failed, index_trace, call,
                status_vars>>

\* main.rs:813-819 (read_texture, in render_to_st7789): device.poll(Maintain::Poll)
\* and rx.try_recv(), in main's thread. While the mapping is pending the thread
\* sleeps; when it failed the callback's assertion panics; when it is there the
\* data is copied, the buffer unmapped and the data sent to the display
\* (main.rs:821-831, 693-696), which panics when the driver reports an error. Then
\* the loop condition is tested.
ReadTexturePoll ==
    /\ pc = "read_texture"
    /\ op' = "read_texture"
    /\ \E mapping \in {"pending", "failed", "ready"}, draw_raw_ok \in BOOLEAN :
         pc' = IF mapping = "pending" THEN "read_texture_sleep"
               ELSE IF mapping = "failed" \/ ~draw_raw_ok THEN "panicked"
               ELSE IF running THEN "bluetooth" ELSE "exited"
    /\ ReadTextureFrame

\* main.rs:818: std::thread::sleep(1 ms), then the next round of the loop of
\* read_texture
ReadTextureSleep ==
    /\ pc = "read_texture_sleep"
    /\ op' = "read_texture"
    /\ pc' = "read_texture"
    /\ ReadTextureFrame

\* The process reads the directory in Startup and in check_and_reload_shaders only:
\* a change of the directory made anywhere in an iteration is seen as one made right
\* before the next of these reads, and is taken there.
ReadsDirectoryNext == pc \in {"start", "reload"}

Next ==
    \/ Startup
    \/ BluetoothPoll
    \/ HandleWindowEvents
    \/ HandleInput
    \/ UpdateUniforms
    \/ CheckAndReloadShaders
    \/ RenderToWindow
    \/ RenderToSt7789
    \/ ReadTexturePoll
    \/ ReadTextureSleep
    \/ ReadsDirectoryNext /\ FsWrite(LoopNames) /\ UNCHANGED <<conv_vars, loop_vars>>
    \/ ReadsDirectoryNext /\ FsRemove(LoopNames) /\ UNCHANGED <<conv_vars, loop_vars>>

Spec == Init /\ [][Next]_vars

-----------------------------------------------------------------------------
(* The main loop with the status feed: main with the task that runs           *)
(* BluetoothServer::run, in a directory nobody edits                           *)

\* the lines a client sends, as the listener stores them (trimmed): a line of three
\* numeric pairs, an empty line, a line of two pairs, a line with a value that is
\* no number, a line with a piece that has no ':'
StatusLines == {
    <<"x",":","3",",","y",":","-","1","5",",","z",":","0">>,
    << >>,
    <<"x",":","3",",","y",":","1">>,
    <<"x",":","a",",","y",":","1",",","z",":","2">>,
    <<"x",",","y",":","1",",","z",":","2">> }

\* the listener task runs as long as the process does
ProcessAlive == pc \notin {"start", "panicked", "exited"}

\* what no listener step changes
ListenerFrame ==
    UNCHANGED <<watcher_vars, op, conv_vars, pc, config_vars, running, current_shader_index,
                force_recreate_shaders, shader_vars, log, compile_failed, index_trace, call,
                use_bluetooth, bluetooth_data, uniforms, draws>>

\* bluetooth_server.rs:17-50: the session, the adapter and the RFCOMM listener are
\* set up; a failure of one of them ends run() with an error, and the task with it
ListenerStart ==
    /\ ProcessAlive
    /\ listener.pc = "starting"
    /\ \E ok \in BOOLEAN : listener' = [listener EXCEPT !.pc = IF ok THEN "accept" ELSE "stopped"]
    /\ UNCHANGED <<received_text, lock>>
    /\ ListenerFrame

\* bluetooth_server.rs:52-80: a client connects and is greeted; message_buffer
\* is a new String
ListenerAccept ==
    /\ ProcessAlive
    /\ listener.pc = "accept"
    /\ listener' = [listener EXCEPT !.pc = "connected", !.message_buffer = << >>]
    /\ UNCHANGED <<received_text, lock>>
    /\ ListenerFrame

\* bluetooth_server.rs:66: a line on stdin while waiting for a client ends the loop
ListenerQuit ==
    /\ ProcessAlive
    /\ listener.pc = "accept"
    /\ listener' = [listener EXCEPT !.pc = "stopped"]
    /\ UNCHANGED <<received_text, lock>>
    /\ ListenerFrame

\* the bytes of the stream: a letter, a space, a line feed, and the two bytes
\* 0xC3 0xA9 of the letter e with an acute accent
LF == "\n"
e_acute == "e'"

\* std::str::from_utf8 on the bytes of one read: the text, or None when the bytes
\* are not UTF-8 by themselves (here: a 0xC3 not followed by 0xA9 in the same
\* read, or a 0xA9 without its 0xC3)
RECURSIVE from_utf8_from(_, _, _)
from_utf8_from(bytes, i, text) ==
    IF i > Len(bytes) THEN Some(text)
    ELSE IF bytes[i] = "C3"
         THEN (IF i < Len(bytes) /\ bytes[i + 1] = "A9"
               THEN from_utf8_from(bytes, i + 2, Append(text, e_acute))
               ELSE None)
    ELSE IF bytes[i] = "A9" THEN None
    ELSE from_utf8_from(bytes, i + 1, Append(text, bytes[i]))

from_utf8(bytes) == from_utf8_from(bytes, 1, << >>)

\* message_buffer.find('\n'): the index of the first line feed, or None
find(text, c) ==
    IF \E i \in 1..Len(text) : text[i] = c
    THEN Some(CHOOSE i \in 1..Len(text) : text[i] = c /\ \A j \in 1..(i - 1) : text[j] # c)
    ELSE None

\* the reads of a client that sends one status line per write, each of up to
\* MaxLine bytes
MaxLine == 14
StatusReads == { l \o <<LF>> : l \in StatusLines }

\* bluetooth_server.rs:82-92, 103-105: stream.read returns n > 0 bytes; when they
\* decode they are appended to message_buffer and the buffer is scanned for lines,
\* when they do not the buffer is cleared. The String is kept within max_buffer
\* characters.
ListenerRead(reads, max_buffer) ==
    /\ ProcessAlive
    /\ listener.pc = "connected"
    /\ \E bytes \in reads :
         LET text == from_utf8(bytes)
         IN  IF text # None
             THEN /\ Len(listener.message_buffer) + Len(text[1]) <= max_buffer
                  /\ listener' = [listener EXCEPT !.pc = "scan",
                                                  !.message_buffer = @ \o text[1]]
             ELSE listener' = [listener EXCEPT !.message_buffer = << >>]
    /\ UNCHANGED <<received_text, lock>>
    /\ ListenerFrame

\* bluetooth_server.rs:93-95: `while let Some(idx) = message_buffer.find('\n')`:
\* with a line feed in the buffer the text before the first is trimmed and is the
\* line to store, without one the next read follows
ListenerScan ==
    /\ ProcessAlive
    /\ listener.pc = "scan"
    /\ LET idx == find(listener.message_buffer, LF)
       IN  listener' = IF idx # None
                       THEN [listener EXCEPT !.pc = "lock",
                                             !.line = trim(SubSeq(listener.message_buffer, 1, idx[1] - 1))]
                       ELSE [listener EXCEPT !.pc = "connected"]
    /\ UNCHANGED <<received_text, lock>>
    /\ ListenerFrame

\* bluetooth_server.rs:98: self.received_text.lock().await returns the guard once
\* the mutex is free
ListenerLock ==
    /\ ProcessAlive
    /\ listener.pc = "lock"
    /\ lock = "free"
    /\ lock' = "listener"
    /\ listener' = [listener EXCEPT !.pc = "store"]
    /\ UNCHANGED received_text
    /\ ListenerFrame

\* bluetooth_server.rs:98-101: the line is stored in the cell and the guard
\* dropped; the line and its line feed are removed from message_buffer, which is
\* scanned again
ListenerStore ==
    /\ ProcessAlive
    /\ listener.pc = "store"
    /\ received_text' = Some(listener.line)
    /\ lock' = "free"
    /\ listener' = LET idx == find(listener.message_buffer, LF)
                   IN  [pc |-> "scan", line |-> << >>,
                        message_buffer |-> SubSeq(listener.message_buffer, idx[1] + 1,
                                                  Len(listener.message_buffer))]
    /\ ListenerFrame

\* a mutant of ListenerDisconnect: the end of a connection ends the accept loop
ListenerDisconnectStops ==
    /\ ProcessAlive
    /\ listener.pc = "connected"
    /\ listener' = [listener EXCEPT !.pc = "stopped", !.message_buffer = << >>]
    /\ UNCHANGED <<received_text, lock>>
    /\ ListenerFrame

\* bluetooth_server.rs:84-87, 108-118: the client disconnects or a read fails;
\* message_buffer goes out of scope
ListenerDisconnect ==
    /\ ProcessAlive
    /\ listener.pc = "connected"
    /\ listener' = [listener EXCEPT !.pc = "accept", !.message_buffer = << >>]
    /\ UNCHANGED <<received_text, lock>>
    /\ ListenerFrame

InitStatus ==
    /\ ConvIdle
    /\ dir = InitialDir
    /\ readable = TRUE
    /\ previous_metadata = EmptyMap
    /\ polled = None
    /\ since = "nothing"
    /\ at_poll = [since |-> "nothing", after |-> "new"]
    /\ op = "start"
    /\ pc = "start"
    /\ target_os \in TargetOS
    /\ use_window \in BOOLEAN
    /\ use_st7789 \in BOOLEAN
    /\ running = TRUE
    /\ current_shader_index = 0
    /\ force_recreate_shaders = FALSE
    /\ vertex_shader = NoModule
    /\ fragment_shader = NoModule
    /\ render_pipeline = NoPipeline
    /\ log = << >>
    /\ compile_failed = FALSE
    /\ index_trace = << >>
    /\ call = <<0, FALSE, FALSE>>
    /\ use_bluetooth \in BOOLEAN
    /\ bluetooth_data = << >>       \* String::new()
    /\ uniforms = ZeroVector        \* Uniforms::new()
    /\ received_text = None         \* BluetoothServer::new
    /\ lock = "free"
    /\ listener = NoListener
    /\ draws = << >>

NextStatus ==
    \/ Startup
    \/ BluetoothPoll
    \/ HandleWindowEvents
    \/ HandleInput
    \/ UpdateUniforms
    \/ CheckAndReloadShaders
    \/ RenderToWindow
    \/ RenderToSt7789
    \/ ReadTexturePoll
    \/ ReadTextureSleep
    \/ ListenerStart
    \/ ListenerAccept
    \/ ListenerQuit
    \/ ListenerRead(StatusReads, MaxLine)
    \/ ListenerScan
    \/ ListenerLock
    \/ ListenerStore
    \/ ListenerDisconnect

SpecStatus == InitStatus /\ [][NextStatus]_vars

\* The listener task on its own, with a client whose stream arrives cut anywhere:
\* a read returns 1 to MaxChunk of the bytes, and message_buffer holds up to
\* MaxBuffer characters
MaxChunk == 3
MaxBuffer == 4

FramingBytes == {"a", " ", LF, "C3", "A9"}
FramingReads == UNION { [1..n -> FramingBytes] : n \in 1..MaxChunk }

\* the process after startup with --bluetooth, the task spawned (main.rs:287-298)
InitListener ==
    LET st == initial_shaders(ShaderState(NoModule, NoModule, NoPipeline, << >>, FALSE), InitialDir, 0)
    IN  /\ ConvIdle
        /\ dir = InitialDir
        /\ readable = TRUE
        /\ previous_metadata = get_file_metadata(TRUE, InitialDir)
        /\ polled = None
        /\ since = "nothing"
        /\ at_poll = [since |-> "nothing", after |-> "new"]
        /\ op = "startup"
        /\ pc = "bluetooth"
        /\ target_os = "linux"
        /\ use_window = TRUE
        /\ use_st7789 = FALSE
        /\ running = TRUE
        /\ current_shader_index = 0
        /\ force_recreate_shaders = FALSE
        /\ vertex_shader = st.vertex_shader
        /\ fragment_shader = st.fragment_shader
        /\ render_pipeline = st.render_pipeline
        /\ log = st.log
        /\ compile_failed = FALSE
        /\ index_trace = << >>
        /\ call = <<0, FALSE, FALSE>>
        /\ use_bluetooth = TRUE
        /\ bluetooth_data = << >>
        /\ uniforms = ZeroVector
        /\ received_text = None
        /\ lock = "free"
        /\ listener = [NoListener EXCEPT !.pc = "starting"]
        /\ draws = << >>

NextListener ==
    \/ ListenerStart
    \/ ListenerAccept
    \/ ListenerQuit
    \/ ListenerRead(FramingReads, MaxBuffer)
    \/ ListenerScan
    \/ ListenerLock
    \/ ListenerStore
    \/ ListenerDisconnect

SpecListener == InitListener /\ [][NextListener]_vars

-----------------------------------------------------------------------------
(* Claims about the main loop *)

Draws == {"draw_window", "draw_st7789"}

\* C1: at every draw call (and whenever a draw call is due) the pipeline held was
\* created from exactly the vertex module and the fragment module held.
C1_PipelineConsistency ==
    (pc \in {"render_window", "render_st7789"} \/ (log # << >> /\ Last(log) \in Draws)) =>
        /\ render_pipeline.id # 0
        /\ render_pipeline.vertex = vertex_shader.id
        /\ render_pipeline.fragment = fragment_shader.id

\* a draw call in an iteration whose poll reported a changed file, after a variant
\* advance in an earlier iteration
C1_Witness ==
    /\ log # << >>
    /\ Last(log) \in Draws
    /\ polled # None
    /\ "load_fragment" \in Range(log)
    /\ current_shader_index = 1

\* C9: the selected index is always in 0..4; an advance trigger sets it to
\* (index + 1) mod 5, so that the first triggers give 1,2,3,4,0; no other step
\* changes it.
C9_VariantIndex ==
    /\ [](current_shader_index \in 0..4)
    /\ [](\A i \in 1..Len(index_trace) : index_trace[i] = i % 5)
    /\ [][op' = "input_space" => current_shader_index' = (current_shader_index + 1) % 5]_vars
    /\ [][current_shader_index' # current_shader_index => op' = "input_space"]_vars

\* five triggers gave 1,2,3,4,0
C9_Witness ==
    /\ Len(index_trace) >= 5
    /\ SubSeq(index_trace, 1, 5) = <<1, 2, 3, 4, 0>>
    /\ current_shader_index = 0
    /\ op = "input_space"

\* C10: once a compiler invocation has failed the process is dead; the step of the
\* failure ends with the failed invocation (no module is created from it, no
\* pipeline is created after it), the pipeline held is the one held before, the
\* module of the failed stage is the one held before unless an earlier invocation of
\* the same call replaced it, and no draw call follows.
C10_CompileFailureTerminates ==
    /\ [](compile_failed => pc = "panicked" /\ Range(log) \cap Draws = {})
    /\ [][ (compile_failed' /\ ~compile_failed) =>
             /\ Last(log') \in {"compile_vertex", "compile_fragment"}
             /\ render_pipeline' = render_pipeline
             /\ (Last(log') = "compile_vertex" /\ "load_vertex" \notin Range(log'))
                   => vertex_shader' = vertex_shader
             /\ (Last(log') = "compile_fragment" /\ "load_fragment" \notin Range(log'))
                   => fragment_shader' = fragment_shader ]_vars
    /\ [][ pc = "panicked" => pc' = "panicked" /\ log' = log /\ shader_vars' = shader_vars ]_vars

\* after a variant advance the vertex shader compiled and the fragment shader, whose
\* source file exists, did not
C10_Witness ==
    /\ compile_failed
    /\ pc = "panicked"
    /\ log = <<"advance", "write_buffer", "compile_vertex", "load_vertex", "compile_fragment">>
    /\ dir[SHADER_NAMES[current_shader_index + 1]] # 0

-----------------------------------------------------------------------------
(* Claims about the status feed *)

\* the lines of the feed that are not empty and not three key:value pairs with
\* numeric values: two pairs, a value that is no number, a piece without ':'
MalformedLines == {
    <<"x",":","3",",","y",":","1">>,
    <<"x",":","a",",","y",":","1",",","z",":","2">>,
    <<"x",",","y",":","1",",","z",":","2">> }

\* the step of the main thread at position p
MainStepAt(p) == pc = p /\ pc' # p

\* C13: the uniform update of an iteration whose cached status line is malformed
\* ends the process: nothing is written to the uniform buffer, the status vector
\* keeps the value it had (no fallback value is put in), no draw call is made in
\* that iteration or later. The line is parsed in the iteration that cached it: no
\* iteration gets past its uniform update, or starts, with a malformed cached line.
C13_MalformedTerminates ==
    /\ [][ (MainStepAt("uniforms") /\ bluetooth_data \in MalformedLines) =>
             /\ pc' = "panicked"
             /\ log' = log
             /\ uniforms' = uniforms
             /\ draws' = draws ]_vars
    /\ [](bluetooth_data \in MalformedLines =>
             /\ pc \in {"events", "input", "uniforms", "panicked"}
             /\ "write_buffer" \notin Range(log)
             /\ draws = << >>)
    /\ [][ (pc = "panicked" /\ bluetooth_data \in MalformedLines) =>
             pc' = "panicked" /\ draws' = draws /\ uniforms' = uniforms /\ log' = log ]_vars

\* a line of two pairs ended the process after an earlier line had set the vector
C13_Witness ==
    /\ pc = "panicked"
    /\ bluetooth_data = <<"x",":","3",",","y",":","1">>
    /\ log = <<"try_lock_ok", "advance">>
    /\ uniforms = <<Finite(3, 10), Finite(-10, 10), Finite(0, 10)>>
    /\ ~compile_failed

\* C14 as stated: an absent or unparsable cached text gives the zero vector and the
\* loop goes on to the next step
C14_AbsentOrUnparsableGivesZero ==
    [][ (MainStepAt("uniforms") /\ (bluetooth_data = << >> \/ bluetooth_data \in MalformedLines)) =>
          /\ pc' = "reload"
          /\ \A i \in 1..3 : SameNumber(uniforms'[i], 0, 1) ]_vars

\* C14, amended: an absent (empty) cached text gives the zero vector, which is
\* written to the uniform buffer, and the loop goes on to the shader check; an
\* unparsable text gives no vector and the loop does not go on.
C14_AbsentGivesZero ==
    /\ [][ (MainStepAt("uniforms") /\ IsBlank(bluetooth_data)) =>
             /\ pc' = "reload"
             /\ \A i \in 1..3 : SameNumber(uniforms'[i], 0, 1)
             /\ log' = Append(log, "write_buffer") ]_vars
    /\ [][ (MainStepAt("uniforms") /\ bluetooth_data \in MalformedLines) => pc' # "reload" ]_vars

\* an empty line was received, cached and turned into the zero vector after a line
\* of three pairs had been
C14_Witness ==
    /\ pc = "reload"
    /\ use_bluetooth
    /\ received_text = Some(<< >>)
    /\ bluetooth_data = << >>
    /\ log = <<"try_lock_ok", "write_buffer">>
    /\ uniforms = ZeroVector
    /\ listener.line = <<"x",":","3",",","y",":","-","1","5",",","z",":","0">>

TryLocks == {"try_lock_ok", "try_lock_err"}

\* C15: the status poll is never kept waiting: it can be taken whenever the loop is
\* at it, whoever holds the mutex, and it leads to the next step. With the feed on
\* it makes one lock attempt, the only one of the iteration; when the mutex is free
\* and the cell holds a line the cached text becomes that line; when the mutex is
\* held or the cell is empty the cached text stays. It changes neither the cell nor
\* the mutex.
C15_PollNeverWaits ==
    /\ [](pc = "bluetooth" => ENABLED BluetoothPoll)
    /\ [][ MainStepAt("bluetooth") =>
             /\ pc' = "events"
             /\ lock' = lock /\ received_text' = received_text
             /\ use_bluetooth => Len(log') = 1 /\ log'[1] \in TryLocks
             /\ (use_bluetooth /\ lock = "free" /\ received_text # None)
                   => bluetooth_data' = received_text[1]
             /\ (~use_bluetooth \/ lock # "free" \/ received_text = None)
                   => bluetooth_data' = bluetooth_data ]_vars
    /\ []((use_bluetooth /\ ProcessAlive /\ pc # "bluetooth") =>
             Cardinality({ i \in 1..Len(log) : log[i] \in TryLocks }) = 1)

\* a poll found the mutex held by the listener, which is about to replace the line
\* in the cell, and left a cached text that is not the line in the cell
C15_Witness ==
    /\ pc = "events"
    /\ op = "bluetooth_poll"
    /\ log = <<"try_lock_err">>
    /\ lock = "listener"
    /\ received_text = Some(<< >>)
    /\ bluetooth_data = <<"x",":","3",",","y",":","-","1","5",",","z",":","0">>

-----------------------------------------------------------------------------
(* Claims about the output sinks *)

\* the loop is or was running: startup did not end in a panic
LoopEntered == pc # "start" /\ ~(pc = "panicked" /\ op = "startup")

\* what an iteration draws: one draw call of 6 vertices and 1 instance for the
\* window if enabled, then one for the display if enabled
DrawsDue ==
    (IF use_window THEN << [sink |-> "window", vertices |-> 6, instances |-> 1] >> ELSE << >>)
        \o (IF use_st7789 THEN << [sink |-> "st7789", vertices |-> 6, instances |-> 1] >> ELSE << >>)

\* C16: the loop runs only with a sink enabled: startup with neither the window
\* nor the display (on Linux) panics before anything is set up. An iteration that
\* reaches its end has issued exactly one draw call of 6 vertices and 1 instance to
\* each enabled sink and none to a disabled one; at no time has it issued more.
C16_SinksAndDraws ==
    /\ [](LoopEntered => (use_window \/ use_st7789))
    /\ [][ (MainStepAt("start") /\ ~use_window /\ ~use_st7789) =>
             /\ pc' = "panicked"
             /\ previous_metadata' = previous_metadata
             /\ shader_vars' = shader_vars
             /\ log' = log ]_vars
    /\ [][ MainStepAt("render_st7789") => draws' = DrawsDue ]_vars
    /\ [](\E n \in 0..Len(DrawsDue) : draws = SubSeq(DrawsDue, 1, n))

\* an iteration with the window only ended with its one draw call, and the next
\* one is due
C16_Witness ==
    /\ pc = "bluetooth"
    /\ op = "render_to_st7789"
    /\ use_window /\ ~use_st7789
    /\ draws = << [sink |-> "window", vertices |-> 6, instances |-> 1] >>
    /\ current_shader_index = 3

-----------------------------------------------------------------------------
(* Claims about the order of the steps of an iteration *)

Recompilation == {"compile_vertex", "load_vertex", "compile_fragment", "load_fragment",
                  "create_render_pipeline"}

\* C11: in every iteration the uniform buffer is written before each draw call, and
\* whatever recompilation the iteration does is complete before its first draw
\* call: every compiler invocation is followed by the reload of its module, every
\* reload by a pipeline rebuild, and all of them come before the draw call.
C11_OrderWithinIteration ==
    \A j \in 1..Len(log) : log[j] \in Draws =>
        /\ \E i \in 1..(j - 1) : log[i] = "write_buffer"
        /\ \A i \in 1..Len(log) : log[i] \in Recompilation => i < j
        /\ \A i \in 1..Len(log) :
             /\ log[i] = "compile_vertex" => log[i + 1] = "load_vertex"
             /\ log[i] = "compile_fragment" => log[i + 1] = "load_fragment"
             /\ log[i] \in {"load_vertex", "load_fragment"} =>
                  \E k \in (i + 1)..(j - 1) : log[k] = "create_render_pipeline"

\* an iteration that polled two changed files drew to both sinks
C11_Witness ==
    /\ Len(log) = 9
    /\ log[1] = "write_buffer"
    /\ log[2] = "get_changes"
    /\ {log[3], log[5]} = {"compile_vertex", "compile_fragment"}
    /\ log[7] = "create_render_pipeline"
    /\ log[8] = "draw_window"
    /\ log[9] = "draw_st7789"

-----------------------------------------------------------------------------
(* Claims about what is recompiled *)

FullReload == <<"compile_vertex", "load_vertex", "compile_fragment", "load_fragment",
                "create_render_pipeline">>

\* C18: the shader check of an iteration that read an advance trigger does not look
\* at the directory; when it returns it has, in this order, compiled and reloaded
\* the vertex shader, compiled and reloaded the fragment shader of the variant now
\* selected, and rebuilt the pipeline from the two new modules, whether or not a
\* file changed; the draw calls of the iteration come after.
C18_AdvanceReloadsBoth ==
    /\ []((pc = "reload" /\ "advance" \in Range(log)) => force_recreate_shaders)
    /\ [][ (MainStepAt("reload") /\ "advance" \in Range(log) /\ pc' # "panicked") =>
             /\ log' = log \o FullReload
             /\ previous_metadata' = previous_metadata /\ polled' = None
             /\ vertex_shader'.id # vertex_shader.id
             /\ vertex_shader'.source = master_vert
             /\ fragment_shader'.id # fragment_shader.id
             /\ fragment_shader'.source = SHADER_NAMES[current_shader_index + 1]
             /\ render_pipeline'.id # render_pipeline.id
             /\ render_pipeline'.vertex = vertex_shader'.id
             /\ render_pipeline'.fragment = fragment_shader'.id ]_vars
    /\ []((draws # << >> /\ "advance" \in Range(log)) =>
             \E i \in 1..Len(log) :
                 /\ SubSeq(log, i, i + 4) = FullReload
                 /\ \A j \in 1..Len(log) : log[j] \in Draws => j > i + 4)

\* an iteration that read a trigger while no file had changed since the last poll
\* reloaded both shaders and drew the third variant
C18_Witness ==
    /\ log = <<"advance", "write_buffer">> \o FullReload \o <<"draw_window">>
    /\ since = "nothing"
    /\ dir = InitialDir
    /\ current_shader_index = 2
    /\ fragment_shader.source = fractal_frag

-----------------------------------------------------------------------------
(* check_and_reload_shaders on its own: one call, in an iteration of the loop, *)
(* on a directory in which several files changed since the last poll           *)

\* the entries that changed: the vertex shader, two variants, a file that is no shader
ReloadNames == {master_vert, waves_frag, mutation_frag, notes_txt}

InitReload ==
    LET st == initial_shaders(ShaderState(NoModule, NoModule, NoPipeline, << >>, FALSE), InitialDir, 0)
    IN  /\ ConvIdle
        /\ dir \in { d \in [Names -> {0} \cup Times] : \A n \in Names \ ReloadNames : d[n] = InitialDir[n] }
        /\ readable = TRUE
        /\ \E d0 \in { d \in [Names -> 0..1] : \A n \in Names \ ReloadNames : d[n] = InitialDir[n] } :
               previous_metadata = get_file_metadata(TRUE, d0)      \* the directory at the last poll
        /\ polled = None
        /\ since = "nothing"
        /\ at_poll = [since |-> "nothing", after |-> "new"]
        /\ op = "update_uniforms"
        /\ pc = "reload"
        /\ target_os = "linux"
        /\ use_window = TRUE
        /\ use_st7789 = FALSE
        /\ running = TRUE
        /\ current_shader_index \in 0..(Len(SHADER_NAMES) - 1)
        /\ force_recreate_shaders \in BOOLEAN
        /\ vertex_shader = st.vertex_shader
        /\ fragment_shader = [st.fragment_shader EXCEPT !.source = SHADER_NAMES[current_shader_index + 1]]
        /\ render_pipeline = st.render_pipeline
        /\ log = IF force_recreate_shaders THEN <<"advance", "write_buffer">> ELSE <<"write_buffer">>
        /\ compile_failed = FALSE
        /\ index_trace = << >>
        /\ call = <<0, FALSE, FALSE>>
        /\ StatusIdle

NextReload == CheckAndReloadShaders

SpecReload == InitReload /\ [][NextReload]_vars

\* the file name ends in ".vert", in ".frag"
IsVert(n) == Len(n) >= 5 /\ n[Len(n)-4] = "." /\ n[Len(n)-3] = "v" /\ n[Len(n)-2] = "e"
                         /\ n[Len(n)-1] = "r" /\ n[Len(n)] = "t"
IsFrag(n) == Len(n) >= 5 /\ n[Len(n)-4] = "." /\ n[Len(n)-3] = "f" /\ n[Len(n)-2] = "r"
                         /\ n[Len(n)-1] = "a" /\ n[Len(n)] = "g"

\* how many entries of the sequence s are in the set S
Count(s, S) == Cardinality({ i \in 1..Len(s) : s[i] \in S })

\* a shader check that polled the directory and returned
PolledAndReturned == MainStepAt("reload") /\ ~force_recreate_shaders /\ pc' # "panicked"

\* C19 as stated: a poll that reports n paths ending in .vert or .frag is followed
\* by n compiler invocations and n pipeline rebuilds
C19_RebuildPerPath ==
    [][ PolledAndReturned =>
          LET n == Count(ChangeSet(polled'), { f \in Names : IsVert(f) \/ IsFrag(f) })
          IN  /\ Count(log', {"compile_vertex", "compile_fragment"}) = n
              /\ Count(log', {"create_render_pipeline"}) = n ]_vars

\* C19, amended: a poll that reports n paths ending in .vert or .frag is followed
\* by n recompiles, one after the other, each a compiler invocation directly
\* followed by the reload of its module, and, when n > 0, by one pipeline rebuild,
\* after the last of them.
C19_RecompilePerPathRebuildOnce ==
    [][ PolledAndReturned =>
          LET n == Count(ChangeSet(polled'), { f \in Names : IsVert(f) \/ IsFrag(f) })
          IN  /\ Count(log', {"compile_vertex", "compile_fragment"}) = n
              /\ \A i \in 1..Len(log') :
                   /\ log'[i] = "compile_vertex" => log'[i + 1] = "load_vertex"
                   /\ log'[i] = "compile_fragment" => log'[i + 1] = "load_fragment"
              /\ Count(log', {"load_vertex", "load_fragment"}) = n
              /\ Count(log', {"create_render_pipeline"}) = (IF n > 0 THEN 1 ELSE 0)
              /\ n > 0 => Last(log') = "create_render_pipeline" ]_vars

\* a poll reported the vertex shader and two variants; three recompiles and one
\* pipeline rebuild followed
C19_Witness ==
    /\ pc = "render_window"
    /\ polled # None
    /\ Range(polled[1]) = {master_vert, waves_frag, mutation_frag}
    /\ Count(log, {"compile_vertex", "compile_fragment"}) = 3
    /\ Count(log, {"create_render_pipeline"}) = 1
    /\ fragment_shader.id = 3

\* C20: of a shader check that polled the directory and returned: the vertex
\* shader was compiled once for each reported path ending in .vert, the fragment
\* shader once for each ending in .frag; the vertex module was replaced if and only
\* if a path ended in .vert and is otherwise the one held before, the fragment
\* module if and only if a path ended in .frag; when no reported path ends in
\* either there was no compilation, no module was replaced and the pipeline is the
\* one held before.
C20_SuffixSelectsStage ==
    [][ PolledAndReturned =>
          LET v == Count(ChangeSet(polled'), { f \in Names : IsVert(f) })
              f == Count(ChangeSet(polled'), { n \in Names : IsFrag(n) })
          IN  /\ Count(log', {"compile_vertex"}) = v
              /\ Count(log', {"load_vertex"}) = v
              /\ Count(log', {"compile_fragment"}) = f
              /\ Count(log', {"load_fragment"}) = f
              /\ IF v > 0 THEN vertex_shader'.id # vertex_shader.id ELSE vertex_shader' = vertex_shader
              /\ IF f > 0 THEN fragment_shader'.id # fragment_shader.id ELSE fragment_shader' = fragment_shader
              /\ (v = 0 /\ f = 0) => /\ render_pipeline' = render_pipeline
                                     /\ log' = Append(log, "get_changes") ]_vars

\* a poll reported only the file that is no shader, and nothing was done
C20_Witness ==
    /\ pc = "render_window"
    /\ polled = Some(<<notes_txt>>)
    /\ log = <<"write_buffer", "get_changes">>
    /\ dir[master_vert] = 1 /\ dir[waves_frag] = 1
    /\ render_pipeline.id = 1

\* C21: of a shader check that polled the directory and returned: when a reported
\* path ends in .frag and is not the file of the selected variant, the fragment
\* shader was compiled and the fragment module replaced by one made from the source
\* of the selected variant, not from the file reported.
C21_ChangedVariantReloadsSelected ==
    [][ PolledAndReturned =>
          LET selected == SHADER_NAMES[current_shader_index + 1]
          IN  \A f \in Range(ChangeSet(polled')) :
                (IsFrag(f) /\ f # selected) =>
                    /\ "compile_fragment" \in Range(log')
                    /\ fragment_shader'.id # fragment_shader.id
                    /\ fragment_shader'.source = selected
                    /\ fragment_shader'.source # f
                    /\ current_shader_index' = current_shader_index ]_vars

\* the file of the second variant was removed while the first is selected: the
\* poll reported it alone and the fragment module was made anew from the first
C21_Witness ==
    /\ pc = "render_window"
    /\ polled = Some(<<mutation_frag>>)
    /\ dir[mutation_frag] = 0
    /\ current_shader_index = 0
    /\ fragment_shader = [id |-> 2, source |-> waves_frag]
    /\ log = <<"write_buffer", "get_changes", "compile_fragment", "load_fragment", "create_render_pipeline">>

\* C22 as stated: the shader check of every loop iteration polls the directory
\* exactly once, whether or not a variant-advance trigger was read in the iteration
C22_EveryIterationPollsOnce ==
    [][ MainStepAt("reload") => Count(log', {"get_changes"}) = 1 ]_vars

\* C22, amended: the shader check of a loop iteration in which no variant-advance
\* trigger was read polls the directory exactly once, that of an iteration in which
\* one was read does not poll it, and no other step of the loop polls it.
C22_PollsOnceUnlessAdvance ==
    [][ /\ MainStepAt("reload") =>
              /\ Count(log', {"get_changes"}) = (IF "advance" \in Range(log) THEN 0 ELSE 1)
              /\ "advance" \in Range(log) => UNCHANGED <<previous_metadata, polled>>
        /\ ~MainStepAt("reload") =>
              /\ Count(log', {"get_changes"}) <= Count(log, {"get_changes"})
              /\ pc # "start" => previous_metadata' = previous_metadata ]_vars

\* an iteration in which a space was read, past its shader check and its window
\* draw: both shaders were recompiled and the directory was not polled
C22_Witness ==
    /\ pc = "render_st7789"
    /\ log = <<"advance", "write_buffer", "compile_vertex", "load_vertex", "compile_fragment",
               "load_fragment", "create_render_pipeline", "draw_window">>
    /\ since = "other"
    /\ current_shader_index = 2

\* C23: `running` becomes false only in the window-event step of a process that
\* has a window, when a close request is among the events, and never becomes true
\* again; the loop is left normally only at the test of the loop condition at the
\* end of an iteration whose window-event step, or that of an earlier iteration,
\* saw a close request, and while `running` is true that test starts the next
\* iteration; a process without a window never leaves the loop normally.
C23_StopsOnlyOnCloseRequest ==
    /\ [][ running' # running =>
             /\ running /\ MainStepAt("events") /\ use_window
             /\ log' = Append(log, "close_requested") ]_vars
    /\ [][ (pc # "exited" /\ pc' = "exited") =>
             /\ pc \in {"render_st7789", "read_texture"} /\ ~running /\ use_window
             /\ "close_requested" \in Range(log) ]_vars
    /\ [][ (MainStepAt("render_st7789") /\ running) =>
             pc' \in {"bluetooth", "read_texture"} ]_vars
    /\ [][ (MainStepAt("read_texture") /\ running) =>
             pc' \in {"bluetooth", "read_texture_sleep", "panicked"} ]_vars
    /\ [](~use_window => pc # "exited" /\ running)

\* the loop was left after an iteration that saw a close request, read a byte other
\* than a space, polled the directory and drew into the window
C23_Witness ==
    /\ pc = "exited"
    /\ ~running
    /\ use_window /\ ~use_st7789
    /\ log = <<"close_requested", "write_buffer", "get_changes", "draw_window">>
    /\ op = "render_to_st7789"

\* a is the beginning of b
IsPrefix(a, b) == Len(a) <= Len(b) /\ SubSeq(b, 1, Len(a)) = a

\* the listener handled a read of n > 0 bytes
ReadHandled == listener.pc = "connected" /\ listener'.pc \in {"connected", "scan"} /\ listener' # listener

\* C24: the cell changes only when message_buffer holds a line feed, to the trimmed
\* text before the first one, which is then removed with its line feed, so that
\* the complete lines are stored in the order of their arrival and the next read
\* is awaited only when no complete line is left; a read leaves the cell as it is,
\* and when it completes no line the characters that were waiting and the bytes
\* just received are kept in message_buffer for the next read of the connection.
C24_LineFraming ==
    [][ LET buffer == listener.message_buffer
            idx == find(buffer, LF)
        IN  /\ received_text' # received_text =>
                  /\ listener.pc = "store" /\ idx # None
                  /\ received_text' = Some(trim(SubSeq(buffer, 1, idx[1] - 1)))
                  /\ listener'.message_buffer = SubSeq(buffer, idx[1] + 1, Len(buffer))
                  /\ listener'.pc = "scan"
            /\ (listener.pc = "scan" /\ listener'.pc = "connected") =>
                  idx = None /\ listener'.message_buffer = buffer
            /\ ReadHandled =>
                  /\ received_text' = received_text
                  /\ find(listener'.message_buffer, LF) = None =>
                        /\ IsPrefix(buffer, listener'.message_buffer)
                        /\ Len(listener'.message_buffer) > Len(buffer) ]_vars

\* the listener task is in its accept loop
InAcceptLoop == listener.pc \in {"accept", "connected", "scan", "lock", "store"}

\* C25 as stated: once the accept loop runs, no step taken while the process runs
\* ends the listener task
C25_NoCancellationPath ==
    [][ (InAcceptLoop /\ ProcessAlive') => listener'.pc # "stopped" ]_vars

\* C25, amended: the accept loop ends only while the task waits for a connection
\* (where a line on standard input ends it), in a step of the task itself that
\* leaves the main loop where it is: no step of the main loop, and nothing that
\* happens while a client is connected, ends the task; a task that ended stays so.
C25_StopsOnlyWaitingForConnection ==
    /\ [][ (InAcceptLoop /\ listener'.pc = "stopped") =>
             /\ listener.pc = "accept"
             /\ UNCHANGED <<pc, running, op, received_text, lock>> ]_vars
    /\ [][ (pc' # pc /\ pc # "start") => listener' = listener ]_vars
    /\ [][ listener.pc = "stopped" => listener'.pc = "stopped" ]_vars

\* the task ended after a client had sent a line, and the main loop goes on
C25_Witness ==
    /\ listener.pc = "stopped"
    /\ received_text # None
    /\ pc = "events"
    /\ running
    /\ "try_lock_ok" \in Range(log)

\* the readback of the offscreen texture waits for the mapping of its buffer
ReadbackWaits == pc \in {"read_texture", "read_texture_sleep"}

\* C26: while the readback waits for the mapping of its buffer, the window-event
\* step or the input check can be taken: the wait does not hold up the loop
C26_ReadbackKeepsLoopResponsive ==
    ReadbackWaits => (ENABLED HandleWindowEvents \/ ENABLED HandleInput)

\* C27: whenever a draw call is due or was just issued, the fragment module held,
\* which is the one the pipeline was created from, was made from the source of the
\* variant at the selected index.
C27_FragmentIsSelectedVariant ==
    (pc \in {"render_window", "render_st7789"} \/ (log # << >> /\ Last(log) \in Draws)) =>
        /\ current_shader_index \in 0..(Len(SHADER_NAMES) - 1)
        /\ fragment_shader.source = SHADER_NAMES[current_shader_index + 1]
        /\ render_pipeline.fragment = fragment_shader.id

\* a draw into the window with the second variant selected, in an iteration whose
\* poll reported a change of the first variant's file, after the advance of an
\* earlier iteration
C27_Witness ==
    /\ pc = "render_st7789"
    /\ Last(log) = "draw_window"
    /\ current_shader_index = 1
    /\ fragment_shader.source = mutation_frag
    /\ polled = Some(<<waves_frag>>)
    /\ "compile_fragment" \in Range(log)

\* C28: the compiler invocations of startup and of the shader check leave the
\* watched directory as it is, and a shader check that polls when nothing outside
\* the process has changed the directory since the last poll (or since the watcher
\* was created) gets None, compiles nothing and leaves the modules and the pipeline
\* as they are, whatever was recompiled before.
C28_RecompilationNotRetriggered ==
    /\ [][ (MainStepAt("start") \/ MainStepAt("reload")) => dir' = dir ]_vars
    /\ [][ (MainStepAt("reload") /\ ~force_recreate_shaders /\ since = "nothing") =>
             /\ polled' = None
             /\ previous_metadata' = previous_metadata
             /\ log' = Append(log, "get_changes")
             /\ UNCHANGED shader_vars
             /\ pc' = "render_window" ]_vars

\* the first variant's file was rewritten, the poll after it had the fragment
\* shader recompiled, and the poll of a later iteration reported nothing
C28_Witness ==
    /\ pc = "render_window"
    /\ polled = None
    /\ log = <<"write_buffer", "get_changes">>
    /\ since = "nothing"
    /\ dir[waves_frag] = 2 /\ previous_metadata[waves_frag] = 2
    /\ dir[master_vert] = 1
    /\ fragment_shader = [id |-> 2, source |-> waves_frag]
    /\ vertex_shader.id = 1

\* the files that differ between the held snapshot and the directory: the changes
\* no poll has reported yet
Pending == Differing(previous_metadata, get_file_metadata(readable, dir))

\* C29: the shader check of an iteration in which a variant-advance trigger was
\* read leaves the snapshot untouched, so that every change not yet reported stays
\* unreported and pending; the snapshot is replaced by no step but a shader check
\* that polls; and the shader check of an iteration without an advance reports
\* exactly the pending changes and, when it returns, has compiled the vertex
\* shader once for each reported path ending in .vert and the fragment shader once
\* for each ending in .frag.
C29_ChangeSurvivesAdvance ==
    /\ [][ (MainStepAt("reload") /\ force_recreate_shaders) =>
             /\ "advance" \in Range(log)
             /\ previous_metadata' = previous_metadata
             /\ polled' = polled
             /\ Pending' = Pending ]_vars
    /\ [][ previous_metadata' # previous_metadata =>
             \/ MainStepAt("start")
             \/ MainStepAt("reload") /\ ~force_recreate_shaders /\ "advance" \notin Range(log) ]_vars
    /\ [][ (MainStepAt("reload") /\ ~force_recreate_shaders) =>
             /\ Range(ChangeSet(polled')) = Pending
             /\ Pending' = {}
             /\ pc' # "panicked" =>
                   /\ Count(log', {"compile_vertex"}) = Cardinality({ f \in Pending : IsVert(f) })
                   /\ Count(log', {"compile_fragment"}) = Cardinality({ f \in Pending : IsFrag(f) }) ]_vars

\* the vertex shader's file was rewritten before the shader check of an iteration
\* in which a space was read: both shaders were recompiled, and the change is
\* still pending
C29_Witness ==
    /\ pc = "render_window"
    /\ "advance" \in Range(log)
    /\ Last(log) = "create_render_pipeline"
    /\ since = "other"
    /\ Pending = {master_vert}
    /\ current_shader_index = 1

\* the steps of an iteration after its window-event step, each with the step that
\* follows it
RestOfIteration ==
    { <<"input", "uniforms">>, <<"uniforms", "reload">>, <<"reload", "render_window">>,
      <<"render_window", "render_st7789">>, <<"render_st7789", "read_texture">>,
      <<"read_texture", "read_texture_sleep">>, <<"read_texture_sleep", "read_texture">>,
      <<"render_st7789", "exited">>, <<"read_texture", "exited">> }

\* C30: the window-event step that sees a close request is followed by the input
\* check; from there each step of the iteration is followed by the next one, or by
\* a panic, up to the test of the loop condition, which ends the loop: no position
\* is left twice but the readback's wait, and the next iteration is never started.
\* The iteration that ends the loop has written the uniforms once, has run the
\* shader check once (with one poll, or, when a space was read in it, with the
\* reload of both shaders instead) and has issued one draw call for each enabled
\* sink. After the loop has ended no step is taken.
C30_CloseFinishesIteration ==
    /\ [][ (running /\ ~running') => (pc = "events" /\ pc' = "input") ]_vars
    /\ [][ (~running /\ pc' # pc) => (<<pc, pc'>> \in RestOfIteration \/ pc' = "panicked") ]_vars
    /\ [][ (~running /\ pc' # pc /\ pc' \notin {"panicked", "exited"}) =>
             /\ pc = "render_st7789" => (use_st7789 /\ draws' = DrawsDue)
             /\ pc = "read_texture" => pc' = "read_texture_sleep" ]_vars
    /\ [][ (pc # "exited" /\ pc' = "exited") =>
             /\ Count(log', {"close_requested"}) = 1
             /\ Count(log', {"write_buffer"}) = 1
             /\ Count(log', {"get_changes"}) = (IF "advance" \in Range(log') THEN 0 ELSE 1)
             /\ Count(log', {"advance"}) <= 1
             /\ "advance" \in Range(log') =>
                    Count(log', {"compile_vertex"}) = 1 /\ Count(log', {"compile_fragment"}) = 1
             /\ draws' = DrawsDue ]_vars
    /\ [][ pc # "exited" ]_vars

\* the loop has ended after an iteration with both sinks that saw a close request
\* and then read a space: the uniforms were written, both shaders recompiled and
\* a draw call issued for the window and for the display
C30_Witness ==
    /\ pc = "exited"
    /\ use_window /\ use_st7789
    /\ log = <<"close_requested", "advance", "write_buffer", "compile_vertex", "load_vertex",
               "compile_fragment", "load_fragment", "create_render_pipeline",
               "draw_window", "draw_st7789">>
    /\ Len(draws) = 2

-----------------------------------------------------------------------------
(* renderer.rs: the Renderer on its own: Renderer::new, then calls of            *)
(* recompile_shaders and render                                                  *)

InitRenderer ==
    LET st == initial_shaders(ShaderState(NoModule, NoModule, NoPipeline, << >>, FALSE), InitialDir, 0)
    IN  /\ ConvIdle
        /\ dir = InitialDir
        /\ readable = TRUE
        /\ previous_metadata = EmptyMap
        /\ polled = None
        /\ since = "nothing"
        /\ at_poll = [since |-> "nothing", after |-> "new"]
        /\ op = "new"
        /\ pc = "renderer"
        /\ target_os \in TargetOS
        /\ use_window \in BOOLEAN
        /\ use_st7789 \in BOOLEAN
        /\ running = TRUE
        /\ current_shader_index = 0
        /\ force_recreate_shaders = FALSE
        /\ vertex_shader = st.vertex_shader
        /\ fragment_shader = st.fragment_shader
        /\ render_pipeline = st.render_pipeline
        /\ log = << >>
        /\ compile_failed = FALSE
        /\ index_trace = << >>
        /\ call = <<0, FALSE, FALSE>>
        /\ StatusIdle

\* a call of Renderer::recompile_shaders
RendererRecompileShaders ==
    /\ pc = "renderer"
    /\ op' = "recompile_shaders"
    /\ \E shader_index \in 0..(Len(SHADER_NAMES) - 1), rv \in BOOLEAN, rf \in BOOLEAN, fail_at \in 0..2 :
         LET st == recompile_shaders(
                       ShaderState(vertex_shader, fragment_shader, render_pipeline, << >>, compile_failed),
                       shader_index, rv, rf, dir, fail_at)
         IN  /\ call' = <<shader_index, rv, rf>>
             /\ vertex_shader' = st.vertex_shader
             /\ fragment_shader' = st.fragment_shader
             /\ render_pipeline' = st.render_pipeline
             /\ log' = st.log
             /\ compile_failed' = st.compile_failed
             /\ pc' = IF st.panicked THEN "panicked" ELSE "renderer"
    /\ UNCHANGED <<watcher_vars, conv_vars, status_vars, config_vars, running, current_shader_index,
                   force_recreate_shaders, index_trace>>

\* a call of Renderer::render
RendererRender ==
    /\ pc = "renderer"
    /\ op' = "render"
    /\ log' = (IF use_window THEN <<"draw_window">> ELSE << >>)
                \o (IF use_st7789 /\ target_os = "linux" THEN <<"draw_st7789">> ELSE << >>)
    /\ UNCHANGED <<watcher_vars, conv_vars, status_vars, pc, config_vars, running, current_shader_index,
                   force_recreate_shaders, shader_vars, compile_failed, index_trace, call>>

NextRenderer ==
    \/ RendererRecompileShaders
    \/ RendererRender

SpecRenderer == InitRenderer /\ [][NextRenderer]_vars

\* C8: every call recompile_shaders(index, rebuild_vertex, rebuild_fragment) that
\* returns installs a newly created pipeline, made from the two modules then held,
\* also when both flags are false; the vertex module is replaced if and only if
\* rebuild_vertex, the fragment module if and only if rebuild_fragment (by one
\* compiled from the variant at index), and the other module is left as it was.
C8_RecompileFrame ==
    [][ (op' = "recompile_shaders" /\ pc' = "renderer") =>
          /\ render_pipeline'.id # render_pipeline.id
          /\ render_pipeline'.vertex = vertex_shader'.id
          /\ render_pipeline'.fragment = fragment_shader'.id
          /\ (vertex_shader'.id # vertex_shader.id) <=> call'[2]
          /\ (fragment_shader'.id # fragment_shader.id) <=> call'[3]
          /\ ~call'[2] => vertex_shader' = vertex_shader
          /\ ~call'[3] => fragment_shader' = fragment_shader
          /\ call'[3] => fragment_shader'.source = SHADER_NAMES[call'[1] + 1] ]_vars

\* a call with both flags false created a pipeline and nothing else
C8_Witness ==
    /\ op = "recompile_shaders"
    /\ pc = "renderer"
    /\ call = <<3, FALSE, FALSE>>
    /\ log = <<"create_render_pipeline">>
    /\ render_pipeline.id = 2
    /\ fragment_shader.source = mutation_frag

=============================================================================
